# A TLA+ verification of BACKFLASH and its Gandr network

BACKFLASH is a terminal reader for the Flashback forum with a police-event
map, a public cache mesh over Yggdrasil, and Gandr, a federated end-to-end
encrypted chat network. This directory holds TLA+ models of the parts of it
whose correctness depends on the order of things: several goroutines on one
connection, datagrams that get lost, timeouts, restarts, floods. The models
are checked with TLC on small instances, and what matters most is proved with
TLAPS for every value of the constants. Paths below are relative to the
repository; Gandr is under `src/gandr/pkg`.

## 1. Inventory

| Part | State it keeps | Operations | Talks to | What is hard |
|---|---|---|---|---|
| `network/mux.go`, connections | pending sends, reassembly table, dedupe ring, inbox | Send, Recv, Close, handleData, handleSignal | datagram overlay | loss, repetition, reordering, full queues, a ring that wraps |
| `network/mux.go`, the mux | one connection per peer, accept queue, epoch | Dial, Accept, readLoop, Close | connections | restarts of the peer, connections shared by several users |
| `federation` | peer table, session keys | Initiate, Respond, Table.Add, RemoveSession, SetTrust | mux, daemon | timeouts on each end alone, late cleanup |
| `daemon/daemon.go` | newest profiles, rate windows | acceptLoop, seedLoop, session pumps, handleEnvelope, HandleSend, HandleConnect, relay, pruneLoop | federation, store, ipc | pumps in parallel, floods on cyclic graphs, restarts |
| `store/store.go` | one file per object | Put, Get, Delete, Prune | file system | look-then-rename, pruning beside writing |
| `ipc` | waiting requests, subscriptions | request, readLoop, teardown, push | daemon, client | replies racing cancellation and teardown, slow readers |
| `tui`, the gandr terminal client | lists, badges, the connection, retry timers | Update: pushes, keys, lines, reconnection | ipc, clientdb | messages of several connections, timers as chains of messages |
| `clientdb`, `identity`, `crypto`, `proto` | encrypted database, keys | open, seal, sign, encode | clients | several writers, one row that cannot be read |
| `internal/gandr` | chat session, groups, invitations | connect, send, invite, receive | ipc or in-process daemon | dropped pushes, membership changes |
| `internal/mesh` | object files, resource index, calls in flight | PutLocal, GetContext, GetResource, Handle | Yggdrasil transport | single flight, announcements out of order |
| `internal/mesh/runtime`, `ygg` | life-cycle state, sockets | Start, Stop, monitor, serve | mesh node | Start and Stop racing the monitor |
| `internal/external`, `internal/service` | request times, forum queue, sync state | Wait, SyncOnce, Refresh | HTTP, mesh, SQLite | limits at their edges, retries |
| `internal/tui` | the screen's model | Update, load commands | everything | results that come after the user has moved on |
| `internal/flashback`, `geo`, `config`, `cmd`, `deploy` | none worth a model | parsing, tables, start-up | | |

What makes the parts correct: an acknowledged message was delivered, once
within the dedupe window; the receiver's memory is bounded; one open
connection per peer, which frames reach; a session in the table is one somebody reads; handshakes
end; federation with a seed comes back; content reaches everybody and its
flood ends; only owners delete; what was pruned stays gone; a request gets its
own answer and returns; a client never stops listening and its badges hide
nothing; a screen ends up showing what it says it shows; nothing of a peer
passes for a page of Flashback. `PROJECT.json` lists the hazards at their
lines, each with the properties that watch it or the reason why none does.

## 2. Plan

Done, in this order:

1. `EffectivelyOnce`, `MuxConn`: one direction of a connection; its theorems
   in `MuxConnProofs`.
2. `Federation`: mux, handshake, table and daemon loops of two nodes.
3. `Flood`: several daemons over the object store; `FloodProofs`.
4. `Ipc`: request matching, pushes and teardown of a client's socket.
5. `GandrTui`: the terminal client and its database over such sockets.
6. `Chat`: vault, sessions, channels and private groups of the reader.
7. `Reader`: the forum views and their asynchronous loads over the cache.
8. `CacheNode`: object store, lookups, runtime, limiter and origin sync.

9. `IpcProofs`, `CacheNodeProofs`, `GandrTuiProofs`, `ReaderProofs`,
   `FederationProofs`, `ChatProofs`: the safety invariants of 2 and 4 to 8.

Left: a table of several peers, with trust, in `Federation`; several clients
in `Ipc`; the action properties these would bring, such as that trust once
taken away is not given back by a late session.

How the modules build on each other: `Federation` takes from `MuxConn` what a
Send may do and makes it one step; `Flood` takes from `Federation` that
sessions exist and from `MuxConn` that a send arrives at most once or is lost;
`GandrTui` takes from `Ipc` that requests end and pushes wait in a bounded
channel; `Chat` has the in-process twin of that channel. `Reader` and `Chat`
are two halves of one Update, which share only the view and the input line,
and `Reader` uses `CacheNode` by calls that end well or not.

## 3. The modules

### EffectivelyOnce and MuxConn

`EffectivelyOnce` is the comment of `network.Conn` as a specification: a
submitted message may be delivered, not again while the last `Window`
deliveries remember it; Send may return an error at any time, and nil only
when the message was delivered.

`MuxConn` is one direction of a connection. The sender's goroutines are
`result[m]` (idle, the two places of `transmit`'s loop, or what Send
returned), `attempt` and `signal`; the receiver is `inbox`, `reasm` with the
creation order `reasmAge`, and the dedupe structure `ids`, `order`, `next`
exactly as in the code. `net` is the set of frames ever written: a frame in
it can be read any number of times, in any order, or never, which covers loss,
repetition and delay. `handleData` of the code is three actions after its
three outcomes (known, kept, delivered). The clock appears as a choice: a
timer may fire at any time, and `gcReassemblies` drops any number of the
oldest entries as expired. `delivered` is a history variable. `Frags[m]` is
the fragment count of a well-formed message; the size checks of Send and
handleData reject messages that are not modelled.

### Federation

Two nodes. A node has its mux (`conns`, the connection `cur` in `mux.peers`,
the queue `accepts`), its goroutines `tasks` (seed loop attempt, user attempt,
responder, pump) and its peer table entry. `readFrame` is readLoop up to the
switch on the frame type: the epoch check, the retirement of a connection, the
surfacing of a new one. Handshake messages carry the names of the attempts
whose nonces and keys they contain, so a message of an old attempt is
recognised, or decrypts, exactly when it does in the code. Several goroutines
may hold the same connection and take each other's messages, as they do in the
code, because Dial hands out the connection that exists.

Close is two steps: `closeChannel`, and `removeConn` later, under the mux's
lock. In between (`"closing"`) the readLoop files and acknowledges messages in
a closed connection, and Dial hands it out. Table.Add does both halves to the
connection of the session it replaces while it holds the table's lock
(`"adding"`), so pumps that end, the seed loop and relay wait for it. The
readLoop's own Close at a new epoch is part of `readFrame`.

Conn.Send is one step: it succeeds, or fails because the acknowledgement finds
another connection, or is disturbed (`"loss"`), with the message delivered or
not. Handshake timers fire when nothing else can happen to a handshake
(`Busy`), or early as a disturbance: 30 s are long against a round trip.
`Disturbances` bounds what goes wrong, each once: a restart with a new or
(`"collide"`) the same epoch, a user's HandleConnect, a stray frame, a loss.

### Flood

Any number of daemons with sessions among them (`Links`). Every source of a
daemon, peer or client, has a handler that is idle or between two steps of its
work: `Put` is split between its Stat (`putStat`) and its rename (`Rename`),
`handleDelete` between its Get and its removal. `wire` holds the sends that
`relay` has started, delivered in any order. `Age` lets an envelope get older
than `proto.MaxMessageAge`, after which handleEnvelope drops it, and with it
all that have earlier timestamps. `Prune` is a tick of pruneLoop: old objects
go, then pruneTrackedPeerState drops the profile entries of authors that were
silent for a week; `PruneTemp` takes the temp file of a Put in progress, `Lose`
a message (also for allowRate), `Crash` everything in memory. Prune waits for
handlers of the object: a `max_message_age` of days is assumed (nothing in the
configuration enforces one above the five minutes of `proto.MaxMessageAge`), so
no handler that accepted the object still works on it. The entry of an author
goes only when what the node stores of them is old, and what a handler is about
to record is later: it came after the week.

### Ipc

One client and the daemon's goroutine for its connection, over two pipes that
hold `PipeCap` frames and on which no write has a deadline. Each request is a
goroutine (`req`): `Register` takes an id and enters the channel in `waiting`,
`Write` waits for room, `Receive` and `TimeOut` return. readLoop is `ReadPush`,
`ReadReply` (the entry leaves the map) and `HandOver` (the send, later),
teardown is `EndOfStream` and `CloseWaiting`; the daemon has `Dispatch`,
`Reply`, `WritePush` and `ServeEnds`. Ids run from 1 to `MaxId` and come
round, and the code does not look whether the next one is in use: `Register`
then takes the entry of another request, or finds a late reply to one of
before (`Late`) on its way. History fields say whose reply a caller got (`by`)
and that the id it took was in use (`lapped`).

### GandrTui

The terminal client as one Update loop: `inbox` holds the messages of
commands that have ended, `link[c]` is what each connection ever dialled has
queued and who listens on it, `timers` counts the retry ticks, dials and
failures that are under way. The countdown to the next attempt falls below 0,
as in the code, when `r` is pressed while a tick is pending. Pushes of nine
kinds are filed into `lists`, `badge` and `db` by the handlers of model.go;
keys and typed lines of keys.go act on whatever item the lists have. `Restart`
is a new start of the client on the database the last one left. `Plan` chooses
one of several sets of bounds at the start of a behaviour, so that each part is
explored further than all of them could be together.

### Chat

The vault and chat screens of the reader. A command is in `flight` until its
goroutine has run and its message in `inbox` until Update takes it; both may
hold several, of several sessions, because nothing keeps a second unlock from
starting. `vault` is the keyfile and the subsystem's lock state, `sess` the
sessions (over the socket, embedded or offline) with their subscriptions, push
queue and the number of commands that wait on it, `db` the client database,
`talk` and `read` the transcripts on screen and the index up to which they are
read. A message carries in the model whether it has been seen; the user's own
line has been. `stray` holds the group messages no key opened, which
gandrIncomingMsg files under the group's id among those of the channels: they
are never on screen, but trimming them lowers the count of that id, which is
the group's (`lowered` is the history of that). SaveMessage also writes them to
rows of that id that nothing reads; these are left out.

### Reader

The forum views. `flight` and `inbox` as in `Chat`; a command has the
arguments it was started with, which may be stale when it runs. `db` has the
forums and pages in the cache and the threads whose row has a title; a title is
the thread it names, or none. Cached posts and cached listings are saved but
are no branch of `LoadPosts` and `LoadForumChildren`: their times are TEXT
columns scanned into a time.Time, which fails for the driver's strings
(app.go:3778, 3937; external_events.go:57 parses the same kind of column by
hand), so the code goes on to the network.
`stack`, `view`, `reader` and `status` are the fields of App of those names.
Lists are sets, and the row under the cursor is any row of the list.

### CacheNode

The public cache as the reader and backflash-cache run it. A file is named by
the hash of its payload; `disk` gives the resource and the provenance it holds,
`index` the payload of each resource, `puts` what has been renamed into place
and not yet indexed. A lookup (`look`) is
idle, missed, waiting for another's call, asking or storing; `chan` is the
channel of its request, `net` the peer's datagrams, `readErr` the one error of
the reader loop. `sync` walks through forums page by page under the limiter,
whose request times are `ages`. The hash covers neither the resource nor the
provenance: a peer sends any payload under any resource, in a HAVE nobody asked
for or in a reply, and the file then holds what was stored last. Only what this
node fetches itself has the resource the page is of (`Res`). Two history
variables: `made`, what it has fetched, and `named`, the resources each payload
has been stored under.
`Plan` sets program and bounds, as in `GandrTui`.

Each module has an `MC` module that gives the constants values.

## 4. Runs

| Run | Shows | Bounds |
|---|---|---|
| `mux_conn` | `AckedIsDelivered`, `NoEarlyDuplicate`, `ReceiverBounded`, `ReassemblyConsistent` | three messages, one of two fragments; ring of 2, inbox of 1, one reassembly, two attempts, four deliveries: the ring wraps and a message comes a second time, the inbox and the table are full; the two alike messages are symmetric |
| `mux_promise` | MuxConn implements EffectivelyOnce (`ImplementsEffectivelyOnce`); `SendReturns` | two messages, one of two fragments, ring of 1, two attempts, three deliveries, one of them a second one |
| `fed_sessions` | `OneOpenConn`, `TableMatchesPumps` | HandleConnect, a server restart and a client-side loss, at any time, while the server relays; backlog 1, inbox 2, three connections and two attempts at one time (the seed loop's and that of HandleConnect); two epochs, symmetric. With three attempts (1.8 million states, more than a run of a few minutes allows) the three hold, too |
| `fed_ends` | `HandshakesEnd`, `DeadEntriesGo` | HandleConnect and a stray frame at any time; nobody relays |
| `fed_connect` | violation of `SeedAlive` | one HandleConnect while federated, both nodes relay |
| `flood_store` | `OnlyOwnersDelete`, `NewestKnown`, `RelayedIsStored` | two daemons; two profiles, a guestbook entry, three deletes; a crash and a pruned temp file |
| `flood_live` | `PrunedStaysGone`, `FloodReaches`, `FloodsEnd` | a triangle, a post and its acknowledgement, one loss |
| `ipc` | `OwnReply`, `HandsOverSafely`, `RequestsEnd`, `PushesEnd` | two requests whose ids may come round (`MaxId` is 2), a reply to an earlier one that timed out, three pushes, room for one frame in each pipe and channel: the third push waits until readLoop drops one |
| `gandr_tui` | `NeverDeaf`, `BadgesTell`, `Reconnects` | one correspondent, two channels, an envelope of each kind; two events of any sort, or three to five of one part; the retry delay is capped at 2 |
| `chat` | `UnreadCounted`, `JoinedSubscribed`, `ListenerArmed` | two channels, a group and a direct conversation, three incoming messages, two of them to the group, so that unreadable ones are trimmed as well, and one sent; transcripts of one message; two sessions, two vaults, two commands under way, seven keys |
| `reader` | `BusyHasLoad`, `ReaderSettles`, `BusyEnds` | three forum nodes, two threads, one of two pages without a title; an empty and a used cache; two commands under way, four keys |
| `cache_node` | `ObjectsHonest`, `WithinLimits`, `CallsEnd`, `ForumsVisited` | a payload of each of two forums, which the peer sends as either, two lookups of one forum or of a forum and a payload; two datagrams of the peer, a restart: an entry of the index comes to name a file of the other forum, and a lookup to return it; two pages per forum; a gap of one tick, two requests in an hour of three, three in a day of five: each of the three limits is at times the one that binds |

Every run ends by itself (bounded disturbances, keys and pushes) or may wait
for the user, so a state without successors is no error and deadlock is not
checked. That the bounds leave room for the case a property is about is what
the mutants (below) show: each is found within them.

### What the violation shows

`fed_connect`. A HandleConnect to a node one is federated with gets the
session's own connection from Dial. Its HELLO is dropped by the peer's pump,
the attempt times out and closes the connection. The peer notices nothing: its
session, on a connection of the same epoch, swallows every HELLO of the seed
loop from then on. Only a restart helps. The same wedge follows, with other
disturbances, from a lost message at the end of a handshake, from a stray
frame, from a restart in the middle of a handshake, and from a restart that
draws the old epoch.

### What the models also show

Behaviours of the code that the models have, and that therefore limit what can
be stated; none has a run of its own.

* A client with nothing to send never learns that its seed rebooted: its table
  says connected, so the seed loop does nothing (Federation).
* Two pumps pass the Stat of Put for the same envelope and both relay it; the
  flood still ends. A delete that overtakes its post is rejected and
  forgotten, and the post stays (Flood).
* The comments at recordProfile (daemon.go:446, :453) and HandleProfile
  (daemon.go:686) call the recorded profile the newest. It need not be. The
  map is in memory, so that after a restart an older profile may be recorded;
  and when the recorded profile is deleted or pruned, the next one to arrive
  is recorded however old it is, while a newer one may still be stored.
  `NewestKnown` is stated for daemons that have not restarted and up to what
  was removed. And with a `max_message_age` of more than a week, which the
  configuration allows, pruneTrackedPeerState (daemon.go:595) drops the entry
  of a profile that is still stored: HandleProfile then finds none until the
  author publishes again (Flood).
* A retry by hand while a dial is under way makes a second connection that
  brings every message again; the first is never closed (GandrTui).
* GandrReadCounts is documented as how many messages of a conversation have
  been seen (app.go:216), so that the badge would count those that have not. It
  also counts the line the user has just sent to a channel (app.go:829: not
  marked read, so shown as unread once another channel is selected); and when
  more than a thousand messages of a group could not be decrypted, trimming
  those puts the group's count back, and its badge counts messages that were
  read. `UnreadCounted` states the badge up to these two (Chat).
* Two creates may both find no vault, and the second keyfile replaces the
  first; a second unlock replaces a session without closing it (Chat).
  `JoinedSubscribed` is stated for embedded sessions that have met no other.
* A cached thread or listing is never shown, as its times do not scan: opening
  one always needs the network, and fails without it although the rows are
  there. A page that has no title leaves the old title in place, so a late load
  of such a thread shows its posts under the title of another (app.go:412-414,
  parser.go:438-442): `ReaderSettles` speaks of the title only for threads whose
  pages have one. A late answer also sets the view: the user is
  taken back to a list he has left (Reader). `ReaderSettles` is stated for
  when the loads of posts are over and none has failed.
* docs/mesh-runtime.md:5 says that local content and Flashback's origin data
  take precedence. Over an announcement they do not: one HAVE, from any address
  (ygg.go:284-303), replaces the index entry of a page this node has fetched
  itself, and if it has the same payload also the provenance. As the hash covers
  the payload only (object.go:46, 59), the same payload announced under another
  resource overwrites the file (store.go:93); the old entry of the index then
  names a file of the other resource, which Find returns without comparing
  (store.go:137-146), and which may be one this node has fetched, for the other.
  `ObjectsHonest` therefore says of an index entry and of a result only that the
  payload has been stored under that resource, and not that the file still holds
  it. After a restart a resource is indexed by the
  order of file names. In the mode without discovery a seed forum that always
  fails keeps the sync from the later ones: `ForumsVisited` is about the mode
  with discovery. monitor may set the state of a stopped runtime to running,
  which then takes lookups over a closed transport; no property says otherwise.
  The limiter is in memory: `WithinLimits` is about one run of the program, and
  a restart begins with the full allowance (CacheNode).

### Fairness

* MuxConn: the runtime runs a goroutine that can write and fires an armed
  timer (WF). Nothing is assumed of the network, the peer or Recv's callers.
* Federation: every goroutine that can go on goes on (WF on the seed loop's
  dial, Accept and each task); a timer fires in the end although handshakes
  get busy again and again (SF on `Expire`, as a 30 s timer is not reset by
  traffic). In `QuietSpec` the talking nodes relay again and again; it also
  restricts disturbances to federated states, so that the
  violations do not rest on two accidents at once.
* Flood: pumps and handlers run (WF); a send that is not lost arrives and is
  taken from the inbox in its turn (WF per envelope).
* Ipc: goroutines of client and daemon run (WF per request and push); nothing
  is assumed of the callers, who may never drain or cancel.
* GandrTui: Bubble Tea runs commands and applies messages, timers fire, and a
  dial ends (WF); `Reconnects` assumes that gandrd stays up in the end.
* Reader: a command runs and its message is applied (WF), as the HTTP client
  has a timeout.
* CacheNode: goroutines run, every lookup has a context with a deadline, the
  clock ticks, and a fetch ends (WF). Nothing is assumed of the peer.

### Mutants

Beside a definition stand mutated forms of it, each a plausible slip in that
code (a ring that does not wrap, an entry removed whoever owns it, a timestamp
not validated). `PROJECT.json` says which property finds which.

## 5. Proofs

Each module with theorems is named after the module it is about. A theorem
holds for every value of the constants that meets the assumptions of that
module: any number of messages, daemons, requests, sessions, envelopes, threads
or objects, and any bound (Federation has two nodes). Every safety invariant and action property that a
run checks is also a theorem.

The layout is the same everywhere: an inductive invariant, lemmas on what the
module's operators preserve, one lemma or step per action, and a last section
with the theorems. What the inductive invariants say beyond types was
model-checked on the instances of the runs before it was proved; it is not part
of the runs' properties, as the theorems say more.

**`MuxConnProofs`** assumes positive sizes, at least one fragment per message,
and that `NoID` is not a message.

* `TypeCorrect`, `InvHolds`: `IInv` is inductive. `NoEarlyDuplicate` alone is
  not: that a message unknown to dedupe was not delivered recently follows
  only from `RingIsHistory` (slot s of the ring holds the delivery at
  `position(s)` of the history) with `IdsMatchRing`. `AckedIsDelivered` needs
  `AckEvidence`, which follows an acknowledgement from the dedupe map over the
  wire and the signal channel to the result.
* `SendMeansDelivered`, `DuplicatesAreFarApart`: consequences of `IInv`.
* `ReceiverSafe`, `ReceiverIsBounded`: the bounds of the receiver and the
  agreement of fragments, ages and dedupe are inductive together with the type
  invariant.
* `Refinement`: every step of MuxConn is a step of EffectivelyOnce or none;
  `Remembered` of the abstract level is membership in the ring, by `IInv`.

**`FederationProofs`** assumes that the bounds are naturals, that there is an
epoch and 0 is none (randomEpoch draws again when it gets 0), and that client and
server are two nodes.

* `InvHolds`, `TypeCorrect`: the invariant has the muxes (`Muxes`: an open
  connection is the one in `mux.peers`, and what waits for Accept is known),
  the goroutines (`Working`: each works on a connection of its node and knows
  the attempts it is about), those inside Close (`Closings`: a closed
  connection in `mux.peers` has one, what they close is closed, and only one
  is in Table.Add) and `TableMatchesPumps`.
* `OneOpen`, `TableIsTrue`: a step on one mux (Dial, the halves of Close,
  readFrame, Send) is a function from muxes to muxes, and a lemma says of each
  that it keeps a mux well-formed and puts no closed connection into
  `mux.peers` (`Grows`); what it closes is what ends the pumps.

**`FloodProofs`** assumes symmetric links, that clients are not daemons,
natural timestamps, and that `None` is no envelope.

* `InvHolds`: `IInv`, whose parts say what a handler may rely on between two
  of its steps: the right to delete was given (`DeletesGranted`), and what it
  is about to store was not pruned (`GoneIsGone`).
* `PrunedForGood`, `DeletesAreOwned`: what follows from it.
* `TypeCorrect`: with where each envelope may come from (`TInv`).
* `NewestHolds`: `Recorded` adds to `NewestKnown` what holds while handlers are
  at work, that a profile which is stored and not yet recorded is in the hands
  of a handler that will record it; `Clock` says that what a handler has in
  hand is later than any entry of its author that was dropped.
* `RelayedStored`: what a handler is about to record, what is recorded and what
  is on the wire was stored (`Stored`), over failed renames and restarts.

**`IpcProofs`** assumes positive capacities and a first id in range.

* `InvHolds`, `TypeCorrect`: `OwnReply` is not inductive. The invariant says
  where the channel of each request is: in the map under its own id (`Waits`),
  with readLoop (`Hands`), in teardown's copy (`Closes`), or nowhere; and that
  the id of a frame on its way belongs to no other request (`Routed`), unless
  that request has lapped (`Held`).
* `RepliesAreOwn`, `ReadLoopNeverBlocks`: what follows from it. The first
  excepts a caller that took an id while it was in use, as the code lets it
  when ids come round with a reply still out; the second holds of it as well.

**`GandrTuiProofs`** assumes that the user is no correspondent, that a chat
line is about a channel, and that the database a run of the client finds is
one that a run can leave (typed; the channel is the key of its table).

* `HearsOrDials`: `NeverDeaf` is inductive with the types of connections,
  timers and messages.
* `BadgesHideNothing`: inductive once the copies of a sealed message are told
  apart (`CopiesDiffer`) and the selected channel exists (`Selects`); that the
  badge counts is an argument on cardinalities for each way the list changes.
* `InvHolds`, `TypeCorrect`: the conjunction of both.

**`ChatProofs`** assumes distinct default channels, a database at the start in
which each channel has one row, and a history limit (200 in the code) within
the transcript limit (1000).

* `TypeCorrect`: `TInv` types the commands and messages under way by their
  kinds, which is what the arguments of a stale command may be.
* `BadgesCount`: inductive with `TInv`, conversation by conversation
  (`Counts`); the cases are those where a transcript is cut, loaded again or
  marked read, and where unreadable messages are cut under the same id.
* `ListenerIsArmed`: inductive with `TInv`.
* `JoinedAreSubscribed`: needs `AloneIsOnly`, that a session which has met no
  other is the only one open, so that nobody else writes to its database.

**`ReaderProofs`** assumes a well-formed forum tree, that a start finds a
typed cache, and room for the two commands that Init starts.

* `InvHolds`, `TypeCorrect`, `AnnouncedLoadsRun`, `ReaderAgrees`: the two
  properties are inductive with the types of what is under way, with the title
  a message of posts carries (`TitleOK`) and with
  `Reading`, that an open reader has a thread.

**`CacheNodeProofs`** assumes finitely many hashes (they have 256 bits), that
the names of the other writers are no lookups, and an hour within a day.

* `InvHolds`, `CacheIsHonest`: `ObjectsHonest` needs to know of an object on
  its way into the index that its file is there and has been stored under its
  resource (`PutsHonest`), and of a lookup that waits for another's call that
  both have one key (`CallsMatch`). A file may change hands between the two
  halves of Put, so all of it speaks of `named`, which only grows (`Grows`); the
  peer sends any payload under any resource.
* `LimitsAreKept`: `WithinLimits` is inductive for a sequence of naturals. The
  requests of a window are a last part of the list, because ages fall along it,
  so that counting them says how far back the first one is; and in a window
  that is not empty requestDelay is never 0.

Only model-checked: all liveness (`SendReturns`, `HandshakesEnd`,
`DeadEntriesGo`, `SeedAlive`, `FloodReaches`, `FloodsEnd`, `RequestsEnd`,
`PushesEnd`, `Reconnects`, `BusyEnds`, `CallsEnd`, `ForumsVisited`), which needs
fairness, out of the prover's reach.

## 6. Not modelled

* Drawing, layout, scrolling, cursors, the mouse, the map and sounds: state
  that only the next frame shows.
* Cryptography, identities, payload encodings, invitations as text: the models
  use what they guarantee.
* HTML parsing, geography and tables: pure functions over large inputs.
* The police events and alerts behind the commands that load them; the
  dashboard; search in the database.
* In Federation trust levels, the size limit of the table and pings as frames
  of their own (Dial is one step); in Flood the windows of the rate limit; in
  Ipc a second client.
* Disk errors and damaged files, except where a handler goes on after them.
* `mesh/conn.go` and `mesh/reliable.go`, which only tests use.
* Start-up, configuration, diagnostics and deployment scripts.
