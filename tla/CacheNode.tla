----------------------------- MODULE CacheNode -----------------------------
(***************************************************************************)
(* The public cache of Flashback pages (internal/mesh, mesh/runtime,       *)
(* mesh/ygg): a store of objects on disk, lookups that ask one peer over   *)
(* datagrams and share an answer, announcements of the peer, and the       *)
(* runtime around them.  Two programs use it: the reader, which saves the  *)
(* pages it has fetched and looks up those it could not fetch, and         *)
(* backflash-cache, whose origin sync walks through the forums             *)
(* (service/origin_sync.go) at the pace of a limiter                       *)
(* (external/ratelimit.go).                                                *)
(*                                                                         *)
(* A hash stands for a payload.  It does not cover the resource that is    *)
(* stored beside it: what this node makes is of the resource its payload   *)
(* names (Res), what a peer sends is of whichever the sender writes, and a *)
(* file, which is named by the hash, holds the resource it was last stored *)
(* under.  The order of the numbers is the order of the files in the       *)
(* directory, which says nothing about age.  The network is external: a    *)
(* reply may be lost, late, doubled or of another object.                  *)
(***************************************************************************)
EXTENDS Naturals, Sequences, FiniteSets

CONSTANTS
    Hash,         \* numbers: the payloads there may be
    Res,          \* the resource this node stores each under; that of a forum is the forum
    Lookup,       \* the lookups, each made at most once in a run of the program
    Key,          \* what is looked up: a hash or a resource
    Seeds,        \* the configured forums, a sequence
    Children,     \* the subforums on each forum's page, a sequence
    Plan,         \* the programs: role ("reader" or "cache"), discover (the sync
                  \* discovers subforums); and bounds: lives (starts of the program),
                  \* stops (whether Stop is called), looks (the lookups made), replies
                  \* (datagrams of the peer), saves (pages the reader saves)
    MaxForums, BatchSize, MaxPages,
    Gap, Hour, PerHour, Day, PerDay, \* of the limiter, in ticks of the clock
    None

Resource == {Res[h] : h \in Hash}
Forum == DOMAIN Children

ASSUME CacheAssumption ==
    /\ Hash \subseteq Nat /\ IsFiniteSet(Hash) /\ None \notin Hash /\ DOMAIN Res = Hash
    /\ Key \in [Lookup -> Hash \cup Resource]
    /\ {"loop", "save", "sync"} \cap Lookup = {} /\ None \notin Lookup
    /\ \A i \in DOMAIN Seeds : Seeds[i] \in Forum
    /\ {MaxForums, BatchSize, MaxPages, PerHour, PerDay} \subseteq Nat \ {0}
    /\ {Gap, Hour, Day} \subseteq Nat /\ Hour <= Day
    /\ Plan \subseteq [role : {"reader", "cache"}, discover : BOOLEAN, stops : BOOLEAN,
                       looks : SUBSET Lookup, lives : Nat, replies : Nat, saves : Nat]

VARIABLES
    plan, lives, replies, saves,
    rt,      \* Runtime: state, active (cancel is set), transport, serve, monitor, stop
    disk,    \* the object files: resource and provenance
    index,   \* resourceIndex
    puts,    \* objects renamed into place, not yet in the index
    made,    \* history: the payloads this node has got from Flashback
    named,   \* history: the resources each payload has been stored under
    look,    \* the lookups: at, call, result
    busy,    \* the call under way for a key
    chan,    \* the channel of a pending request
    net,     \* datagrams of the peer
    readErr, \* the error the reader loop leaves, for one receiver
    sync,    \* OriginSync: at, forum, page, stored, queue, known, started
    ages     \* RateLimiter.requests, as the time since each

disks == <<disk, index, puts, made, named>>
lookups == <<look, busy, chan>>
syncs == <<sync, ages>>
vars == <<plan, lives, replies, saves, rt, disk, index, puts, made, named, look, busy, chan, net,
          readErr, sync, ages>>

-----------------------------------------------------------------------------
(* The object store.                                                       *)

NoIndex == [r \in Resource |-> None]
NoFile == [r |-> None, provenance |-> "none"]
Stored(h) == disk[h] # NoFile

\* OpenObjectStore: for a resource the last of its files is indexed.
OpenObjectStore ==
    [r \in Resource |->
        LET files == {h \in Hash : Stored(h) /\ disk[h].r = r}
        IN  IF files = {} THEN None ELSE CHOOSE h \in files : \A x \in files : x <= h]

\* Put renames a complete file into place, and then indexes it.
PutFile(who, h, r, provenance) ==
    /\ disk' = [disk EXCEPT ![h] = [r |-> r, provenance |-> provenance]]
    /\ puts' = puts \cup {[who |-> who, h |-> h, r |-> r]}
    /\ named' = [named EXCEPT ![h] = @ \cup {r}]
PutIndex(p) ==
    /\ index' = [index EXCEPT ![p.r] = p.h]
    /\ puts' = puts \ {p}

Object(h, r, provenance) == [h |-> h, r |-> r, provenance |-> provenance]
NoObject == Object(None, None, "none")

\* Get and Find: the file of the hash, or of the hash that the index has; that
\* the file names the resource asked for is not looked at.
Find(key) ==
    LET h == IF key \in Hash THEN key ELSE index[key]
    IN  IF h = None THEN NoObject
        ELSE IF ~Stored(h) THEN NoObject
        ELSE Object(h, disk[h].r, disk[h].provenance)

-----------------------------------------------------------------------------
(* Processes.                                                              *)

NewRuntime == [state |-> "configured", active |-> FALSE, transport |-> "none",
               serve |-> "none", monitor |-> "none", stop |-> "no"]
NewSync == [at |-> "idle", forum |-> None, page |-> 1, stored |-> 0, queue |-> <<>>,
            known |-> {}, started |-> FALSE]
NewLookup == [at |-> "idle", call |-> None, result |-> NoObject]

Init ==
    /\ plan \in Plan /\ lives = 1 /\ replies = 0 /\ saves = 0
    /\ rt = NewRuntime /\ disk = [h \in Hash |-> NoFile] /\ index = NoIndex
    /\ puts = {} /\ made = {} /\ named = [h \in Hash |-> {}] /\ net = {} /\ readErr = FALSE
    /\ look = [l \in Lookup |-> NewLookup] /\ chan = [l \in Lookup |-> {}]
    /\ busy = [k \in {Key[l] : l \in Lookup} |-> None]
    /\ sync = NewSync /\ ages = <<>>

\* The program ends, after Stop or by a crash, and is started again: only the
\* files are left.
Restart ==
    /\ lives < plan.lives /\ lives' = lives + 1
    /\ rt' = NewRuntime /\ index' = NoIndex /\ puts' = {} /\ readErr' = FALSE /\ net' = {}
    /\ look' = [l \in Lookup |-> NewLookup] /\ chan' = [l \in Lookup |-> {}]
    /\ busy' = [k \in DOMAIN busy |-> None]
    /\ sync' = NewSync /\ ages' = <<>>
    /\ UNCHANGED <<plan, disk, made, named, replies, saves>>

Frame == UNCHANGED <<plan, lives>>

-----------------------------------------------------------------------------
(* Runtime.  "up" is Running with a peer and Degraded without.             *)

\* Start, once in a run of the program: the identity, the store or the
\* transport may fail.
Start ==
    /\ rt.state = "configured" /\ rt.transport = "none"
    /\ \/ rt' = [rt EXCEPT !.state = "starting"]
       \/ rt' = [rt EXCEPT !.state = "error"]
    /\ Frame /\ UNCHANGED <<disks, lookups, net, readErr, syncs, replies, saves>>

\* The fields are set, the handler is installed, serve and monitor begin.
StartRuns ==
    /\ rt.state = "starting"
    /\ rt' = [rt EXCEPT !.state = "up", !.active = TRUE, !.transport = "open",
                        !.serve = "running", !.monitor = "ticking"]
    /\ index' = OpenObjectStore
    /\ Frame /\ UNCHANGED <<disk, puts, made, named, lookups, net, readErr, syncs, replies, saves>>

\* monitor reads the state, counts the peers without the lock, and sets it.
MonitorReads ==
    /\ rt.monitor = "ticking" /\ rt.active /\ rt.state # "error"
    /\ rt' = [rt EXCEPT !.monitor = "counted"]
    /\ Frame /\ UNCHANGED <<disks, lookups, net, readErr, syncs, replies, saves>>
MonitorSets ==
    /\ rt.monitor = "counted"
    /\ rt' = [rt EXCEPT !.state = "up", !.monitor = IF rt.active THEN "ticking" ELSE "none"]
    /\ Frame /\ UNCHANGED <<disks, lookups, net, readErr, syncs, replies, saves>>

\* Stop, at the end of the program: what runs is cancelled and the transport
\* closed.
StopBegins ==
    /\ plan.stops /\ rt.active /\ rt.stop = "no"
    /\ rt' = [rt EXCEPT !.state = "stopping", !.active = FALSE, !.transport = "closed",
                        !.stop = "waiting",
                        !.monitor = IF @ = "ticking" THEN "none" ELSE @]
    /\ Frame /\ UNCHANGED <<disks, lookups, net, readErr, syncs, replies, saves>>

\* serve returns with the context, or with the error of the reader loop.
ServeEnds ==
    /\ rt.serve = "running"
    /\ \/ ~rt.active /\ UNCHANGED readErr
       \/ readErr /\ readErr' = FALSE
    /\ rt' = [rt EXCEPT !.serve = "ended", !.state = IF rt.active THEN "error" ELSE @]
    /\ Frame /\ UNCHANGED <<disks, lookups, net, syncs, replies, saves>>

\* It has waited for serve, at most five seconds, and not for monitor.
StopEnds ==
    /\ rt.stop = "waiting"
    /\ rt' = [rt EXCEPT !.state = IF rt.serve = "ended" THEN "configured" ELSE "error",
                        !.stop = "ended"]
    /\ Frame /\ UNCHANGED <<disks, lookups, net, readErr, syncs, replies, saves>>

-----------------------------------------------------------------------------
(* The transport.  Its reader loop serves what it is asked and routes the  *)
(* replies; it stores an announced object before it reads on.              *)

Reading == rt.transport = "open" /\ \A p \in puts : p.who # "loop"
ReaderFails ==
    /\ rt.transport = "closed" /\ rt' = [rt EXCEPT !.transport = "failed"]
    /\ readErr' = TRUE
    /\ Frame /\ UNCHANGED <<disks, lookups, net, syncs, replies, saves>>

\* An object of the peer is a payload under whichever resource it says.
NoBody == [h |-> None, r |-> None]
Bodies == [h : Hash, r : Resource] \cup {NoBody}

\* The peer answers a request, as often as it was sent.
PeerReplies ==
    /\ replies < plan.replies /\ replies' = replies + 1
    /\ \E l \in Lookup, body \in Bodies :
         /\ look[l].at = "asking"
         /\ net' = net \cup {[to |-> l, body |-> body]}
    /\ Frame /\ UNCHANGED <<rt, disks, lookups, readErr, syncs, saves>>

\* A reply goes to the request that waits for it, if it is the first.
Routes ==
    /\ Reading
    /\ \E m \in net :
         /\ net' = net \ {m}
         /\ chan' = IF look[m.to].at = "asking" /\ chan[m.to] = {}
                    THEN [chan EXCEPT ![m.to] = {m.body}] ELSE chan
    /\ Frame /\ UNCHANGED <<rt, disks, look, busy, readErr, syncs, replies, saves>>

\* Mutant of AcceptAnnouncement: the provenance the peer claims is kept.
AcceptAnnouncementAsIs ==
    /\ Reading /\ replies < plan.replies /\ replies' = replies + 1
    /\ \E h \in Hash, r \in Resource : PutFile("loop", h, r, "origin")
    /\ Frame /\ UNCHANGED <<rt, index, made, lookups, net, readErr, syncs, saves>>

\* HAVE, from any sender: a payload whose hash is right is stored as the peer's
\* under the resource that came with it, even when this node has the resource,
\* or the payload under another resource, from Flashback.
AcceptAnnouncement ==
    /\ Reading /\ replies < plan.replies /\ replies' = replies + 1
    /\ \E h \in Hash, r \in Resource : PutFile("loop", h, r, "peer")
    /\ Frame /\ UNCHANGED <<rt, index, made, lookups, net, readErr, syncs, saves>>
AnnouncementStored ==
    /\ \E p \in puts : p.who = "loop" /\ PutIndex(p)
    /\ Frame /\ UNCHANGED <<rt, disk, made, named, lookups, net, readErr, syncs, replies, saves>>

-----------------------------------------------------------------------------
(* Lookups: GetContext and GetResource.                                    *)

\* What is here is returned without asking.
Begin ==
    \E l \in Lookup :
        /\ l \in plan.looks /\ look[l].at = "idle"
        /\ LET found == Find(Key[l])
               up == rt.transport # "none" /\ rt.state = "up"
           IN  look' = [look EXCEPT ![l] =
                    IF up /\ found = NoObject THEN [@ EXCEPT !.at = "missed"]
                    ELSE [@ EXCEPT !.at = "done", !.result = IF up THEN found ELSE NoObject]]
        /\ Frame /\ UNCHANGED <<rt, disks, busy, chan, net, readErr, syncs, replies, saves>>

\* The first to miss asks the peer, the others wait for it.
Join ==
    \E l \in Lookup :
        /\ look[l].at = "missed"
        /\ IF busy[Key[l]] # None
           THEN look' = [look EXCEPT ![l].at = "waiting", ![l].call = busy[Key[l]]] /\ UNCHANGED busy
           ELSE look' = [look EXCEPT ![l].at = "asking"] /\ busy' = [busy EXCEPT ![Key[l]] = l]
        /\ Frame /\ UNCHANGED <<rt, disks, chan, net, readErr, syncs, replies, saves>>

\* The owner of a call leaves its result to those who wait.
Finish(l, result) ==
    /\ look' = [look EXCEPT ![l].at = "done", ![l].result = result]
    /\ busy' = [busy EXCEPT ![Key[l]] = None] /\ chan' = [chan EXCEPT ![l] = {}]

\* Mutant of GiveUp: only those who wait for another lookup look at their context.
GiveUpWaiting ==
    \E l \in Lookup :
        /\ look[l].at = "waiting" /\ look' = [look EXCEPT ![l].at = "done"] /\ UNCHANGED <<busy, chan>>
        /\ Frame /\ UNCHANGED <<rt, disks, net, readErr, syncs, replies, saves>>

\* The context ends: of the owner, with that of all who wait, or of one of
\* those.  A closed transport refuses the next datagram, too.
GiveUp ==
    \E l \in Lookup :
        /\ \/ look[l].at = "asking" /\ Finish(l, NoObject)
           \/ look[l].at = "waiting" /\ look' = [look EXCEPT ![l].at = "done"] /\ UNCHANGED <<busy, chan>>
        /\ Frame /\ UNCHANGED <<rt, disks, net, readErr, syncs, replies, saves>>

\* The error of the reader loop reaches one request, or serve.
LoopFailed ==
    \E l \in Lookup :
        /\ look[l].at = "asking" /\ readErr /\ readErr' = FALSE
        /\ Finish(l, NoObject)
        /\ Frame /\ UNCHANGED <<rt, disks, net, syncs, replies, saves>>

\* acceptPeerObject: the payload asked for, under any resource, or a payload of
\* the resource asked for, is stored as the peer's.
Answers(body, key) == body # NoBody /\ (key = body.h \/ key = body.r)
AcceptPeerObject ==
    \E l \in Lookup : \E body \in chan[l] :
        /\ look[l].at = "asking"
        /\ IF Answers(body, Key[l])
           THEN /\ PutFile(l, body.h, body.r, "peer")
                /\ look' = [look EXCEPT ![l].at = "storing"] /\ UNCHANGED <<busy, chan>>
           ELSE Finish(l, NoObject) /\ UNCHANGED <<disk, puts, named>>
        /\ Frame /\ UNCHANGED <<rt, index, made, net, readErr, syncs, replies, saves>>
PeerObjectStored ==
    \E p \in puts :
        /\ p.who \in Lookup /\ PutIndex(p)
        /\ Finish(p.who, Object(p.h, p.r, "peer"))
        /\ Frame /\ UNCHANGED <<rt, disk, made, named, net, readErr, syncs, replies, saves>>

\* A lookup that waited has the result of the one it waited for.
Shares ==
    \E l \in Lookup :
        /\ look[l].at = "waiting" /\ look[look[l].call].at = "done"
        /\ look' = [look EXCEPT ![l].at = "done", ![l].result = look[look[l].call].result]
        /\ Frame /\ UNCHANGED <<rt, disks, busy, chan, net, readErr, syncs, replies, saves>>

\* The reader saves a page it has fetched: PutLocal.
Save ==
    /\ plan.role = "reader" /\ rt.transport # "none" /\ saves < plan.saves /\ saves' = saves + 1
    /\ \E h \in Hash :
         /\ [who |-> "save", h |-> h, r |-> Res[h]] \notin puts
         /\ PutFile("save", h, Res[h], "origin") /\ made' = made \cup {h}
    /\ Frame /\ UNCHANGED <<rt, index, lookups, net, readErr, syncs, replies>>
Saved ==
    /\ \E p \in puts : p.who = "save" /\ PutIndex(p)
    /\ Frame /\ UNCHANGED <<rt, disk, made, named, lookups, net, readErr, syncs, replies, saves>>

-----------------------------------------------------------------------------
(* The limiter.                                                            *)

\* Time passes; prune drops the first requests as long as they are older than
\* a day.
Tick ==
    /\ ages # <<>>
    /\ LET older == [i \in DOMAIN ages |-> ages[i] + 1]
       IN  \E n \in 0..Len(ages) :
             /\ \A i \in 1..n : older[i] > Day
             /\ n < Len(ages) => older[n + 1] <= Day
             /\ ages' = SubSeq(older, n + 1, Len(ages))
    /\ Frame /\ UNCHANGED <<rt, disks, lookups, net, readErr, sync, replies, saves>>

\* The requests within a window of time.
Recent(window) == {i \in DOMAIN ages : ages[i] < window}

\* requestDelay: the time until the first request of the window leaves it.
RequestDelay(window) ==
    IF Recent(window) = {} THEN 0
    ELSE window - ages[CHOOSE i \in Recent(window) : \A j \in Recent(window) : i <= j]

\* Mutant of Passes: one request too many within an hour.
PassesOneMore ==
    /\ ages # <<>> => ages[Len(ages)] >= Gap
    /\ Cardinality(Recent(Hour)) > PerHour => RequestDelay(Hour) = 0
    /\ Len(ages) >= PerDay => RequestDelay(Day) = 0

\* Wait lets a request through when nothing is left to wait for.
Passes ==
    /\ ages # <<>> => ages[Len(ages)] >= Gap
    /\ Cardinality(Recent(Hour)) >= PerHour => RequestDelay(Hour) = 0
    /\ Len(ages) >= PerDay => RequestDelay(Day) = 0

-----------------------------------------------------------------------------
(* OriginSync.                                                             *)

SeedSet == {Seeds[i] : i \in DOMAIN Seeds}
SortedKnown == SelectSeq([i \in 1..Cardinality(Forum) |->
                    CHOOSE f \in Forum : Cardinality({x \in Forum : x < f}) = i - 1],
                    LAMBDA f : f \in sync.known)

\* The sync returns, with what is left of the queue.
Returns(s) == [s EXCEPT !.at = "idle", !.forum = None, !.stored = 0, !.page = 1]

\* SyncOnce at its interval: the seeds, or where the last one stopped.
SyncOnce ==
    /\ plan.role = "cache" /\ rt.active /\ sync.at = "idle"
    /\ sync' = [sync EXCEPT !.at = "next", !.started = plan.discover,
            !.known = IF plan.discover /\ ~sync.started THEN SeedSet ELSE @,
            !.queue = IF ~plan.discover \/ ~sync.started THEN Seeds
                      ELSE IF @ = <<>> THEN SortedKnown ELSE @]
    /\ Frame /\ UNCHANGED <<rt, disks, lookups, net, readErr, ages, replies, saves>>

\* Mutant of NextForum: a forum stays in the queue until it has been stored.
NextForumKept ==
    /\ sync.at = "next"
    /\ sync' = IF sync.queue = <<>> \/ (plan.discover /\ sync.stored >= BatchSize) THEN Returns(sync)
               ELSE [sync EXCEPT !.at = "paced", !.forum = Head(sync.queue), !.page = 1]
    /\ Frame /\ UNCHANGED <<rt, disks, lookups, net, readErr, ages, replies, saves>>

\* A forum is taken off the queue before it is fetched.
NextForum ==
    /\ sync.at = "next"
    /\ sync' = IF sync.queue = <<>> \/ (plan.discover /\ sync.stored >= BatchSize) THEN Returns(sync)
               ELSE [sync EXCEPT !.at = "paced", !.forum = Head(sync.queue), !.queue = Tail(@), !.page = 1]
    /\ Frame /\ UNCHANGED <<rt, disks, lookups, net, readErr, ages, replies, saves>>

\* Limiter.Wait, before each page; the end of the program ends it.
Wait ==
    /\ sync.at = "paced"
    /\ \/ Passes /\ sync' = [sync EXCEPT !.at = "fetching"] /\ ages' = Append(ages, 0)
       \/ ~rt.active /\ sync' = Returns(sync) /\ UNCHANGED ages
    /\ Frame /\ UNCHANGED <<rt, disks, lookups, net, readErr, replies, saves>>

\* The first page fails or leads on; a later one that fails is the last.
Fetched ==
    /\ sync.at = "fetching"
    /\ sync' \in {IF sync.page = 1 THEN Returns(sync) ELSE [sync EXCEPT !.at = "storing"],
                  IF sync.page < MaxPages THEN [sync EXCEPT !.at = "paced", !.page = @ + 1]
                  ELSE [sync EXCEPT !.at = "storing"]}
    /\ Frame /\ UNCHANGED <<rt, disks, lookups, net, readErr, ages, replies, saves>>

\* A snapshot is stored as this node's own, if it can be.
StoreSnapshot ==
    /\ sync.at = "storing"
    /\ \/ /\ sync' = [sync EXCEPT !.at = "indexing"]
          /\ \E h \in Hash : /\ Res[h] = sync.forum
                             /\ PutFile("sync", h, Res[h], "origin") /\ made' = made \cup {h}
       \/ sync' = Returns(sync) /\ UNCHANGED <<disk, puts, made, named>>
    /\ Frame /\ UNCHANGED <<rt, index, lookups, net, readErr, ages, replies, saves>>

\* New subforums join the queue, as many as are allowed.
SnapshotStored ==
    /\ sync.at = "indexing"
    /\ \E p \in puts : p.who = "sync" /\ PutIndex(p)
    /\ LET fresh == SelectSeq(Children[sync.forum], LAMBDA f : f \notin sync.known)
           room == IF MaxForums > Cardinality(sync.known) THEN MaxForums - Cardinality(sync.known) ELSE 0
           added == IF plan.discover THEN SubSeq(fresh, 1, IF Len(fresh) < room THEN Len(fresh) ELSE room)
                    ELSE <<>>
       IN  sync' = [sync EXCEPT !.at = "next", !.forum = None, !.stored = @ + 1,
                !.queue = @ \o added, !.known = @ \cup {added[i] : i \in DOMAIN added}]
    /\ Frame /\ UNCHANGED <<rt, disk, made, named, lookups, net, readErr, ages, replies, saves>>

-----------------------------------------------------------------------------
Next ==
    \/ Restart \/ Start \/ StartRuns \/ MonitorReads \/ MonitorSets \/ StopBegins \/ ServeEnds
    \/ StopEnds \/ ReaderFails \/ PeerReplies \/ Routes \/ AcceptAnnouncement
    \/ AnnouncementStored \/ Begin \/ Join \/ GiveUp \/ LoopFailed \/ AcceptPeerObject
    \/ PeerObjectStored \/ Shares \/ Save \/ Saved \/ Tick \/ SyncOnce \/ NextForum \/ Wait
    \/ Fetched \/ StoreSnapshot \/ SnapshotStored

\* Goroutines run, contexts have deadlines, the clock ticks, and a fetch ends.
Fairness ==
    /\ WF_vars(Join) /\ WF_vars(GiveUp) /\ WF_vars(PeerObjectStored) /\ WF_vars(Tick) /\ WF_vars(SyncOnce) /\ WF_vars(NextForum)
    /\ WF_vars(Wait) /\ WF_vars(Fetched) /\ WF_vars(StoreSnapshot) /\ WF_vars(SnapshotStored)

Spec == Init /\ [][Next]_vars /\ Fairness

-----------------------------------------------------------------------------
\* Whatever peers send, and when: nothing passes for a page of Flashback, on
\* disk or in a lookup, that this node has not fetched itself and does not hold
\* under the resource it fetched; a lookup of a hash has got that payload, and
\* one of a resource a payload that has been stored under it.  That one may
\* name another resource, if it has been stored under that as well.
ObjectsHonest ==
    /\ \A r \in Resource : index[r] # None => Stored(index[r]) /\ r \in named[index[r]]
    /\ \A h \in Hash : disk[h].provenance = "origin" => h \in made /\ disk[h].r = Res[h]
    /\ \A l \in Lookup : LET o == look[l].result
                         IN  o # NoObject =>
                                /\ Key[l] = o.h \/ Key[l] \in named[o.h]
                                /\ o.r \in named[o.h]
                                /\ o.provenance = "origin" => o.h \in made /\ o.r = Res[o.h]

\* As long as the program runs it sends Flashback no two requests closer than
\* the gap, and of any PerHour + 1 in a row the last comes an hour after the
\* first or later; likewise for a day.  Requests of more than a day ago,
\* which prune forgets, cannot matter.
Spaced(n, d) == \A i, j \in DOMAIN ages : j >= i + n => ages[i] >= ages[j] + d
WithinLimits == Spaced(1, Gap) /\ Spaced(PerHour, Hour) /\ Spaced(PerDay, Day)

\* Every lookup ends, also one that waits for another's answer, that has
\* missed every reply, or that is under way when Stop closes the transport.
CallsEnd == \A l \in Lookup : look[l].at # "idle" ~> look[l].at \in {"done", "idle"}

\* When subforums are discovered, each forum that is known is visited again
\* and again while the node runs, also when fetching another always fails.
ForumsVisited ==
    \A f \in Forum : f \in sync.known ~> (sync.forum = f \/ ~rt.active)
=============================================================================
