------------------------------- MODULE Flood -------------------------------
(***************************************************************************)
(* How Gandr daemons flood envelopes: daemon.go's handleEnvelope (one pump *)
(* goroutine per peer session), HandleSend (the local client), relay,      *)
(* handleDelete and recordProfile, over the object store of store.go,      *)
(* whose Put looks before it renames, and its Prune.                       *)
(*                                                                         *)
(* Sessions stay up with peers of neutral trust or better (Links); what a  *)
(* session does is in Federation, what a send does in MuxConn: here a send *)
(* is delivered once, in any order, or lost.  Objects are named by their   *)
(* envelope, as content hashes name them in the code.                      *)
(***************************************************************************)
EXTENDS Integers, FiniteSets

CONSTANTS
    Nodes,
    Links,       \* Links[n]: the peers in n's table that get relays
    Envs,        \* the signed envelopes: type, sender, target, ts, and the
                 \* node (home) whose client submits it
    Client,      \* the source of what the local client submits
    None,
    Faults       \* bound: pairs <<node, kind>>, each of which may happen
                 \* once: "crash", "loss" of a message on its way to the
                 \* node, "tmp" (Prune takes the temp file of a Put)

Content == {"post", "guestbook", "profile"}
Types == Content \cup {"ack", "delete"}

ASSUME LinksAssumption ==
    /\ Client \notin Nodes
    /\ \A n \in Nodes : Links[n] \subseteq Nodes \ {n}
    /\ \A n, p \in Nodes : p \in Links[n] <=> n \in Links[p]
ASSUME EnvAssumption ==
    None \notin Envs /\ \A e \in Envs : e.type \in Types /\ e.home \in Nodes /\ e.ts \in Nat
ASSUME FaultAssumption == Faults \subseteq Nodes \X {"crash", "loss", "tmp"}

VARIABLES
    store,       \* store[n]: the committed objects
    profiles,    \* profiles[n][a]: daemon.profiles, the newest known of a
    handler,     \* handler[n][s]: the goroutine that works for source s
    wire,        \* <<from, to, envelope>>: sends in progress (bound: one copy)
    gone,        \* <<n, e>>: n has pruned e
    evicted,     \* <<n, e>>: n has forgotten the entry e of its profiles
    submitted,   \* envelopes their client has handed in
    stale,       \* envelopes older than proto.MaxMessageAge
    faults       \* faults left

vars == <<store, profiles, handler, wire, gone, evicted, submitted, stale, faults>>

Authors == {e.sender : e \in Envs}
Sources(n) == Links[n] \cup {Client}
Idle == [pc |-> "idle", env |-> None]

Init ==
    /\ store = [n \in Nodes |-> {}]
    /\ profiles = [n \in Nodes |-> [a \in Authors |-> None]]
    /\ handler = [n \in Nodes |-> [s \in Sources(n) |-> Idle]]
    /\ wire = {}
    /\ gone = {}
    /\ evicted = {}
    /\ submitted = {}
    /\ stale = {}
    /\ faults = Faults

\* e is a profile of a.
Profile(e, a) == e.type = "profile" /\ e.sender = a

-----------------------------------------------------------------------------
(* The parts of a handler.                                                 *)

setHandler(n, s, h) == handler' = [handler EXCEPT ![n][s] = h]

\* Mutant of relay: the message goes to every node, the sender included.
relayAll(n, e, except, w) ==
    wire' = w \cup {<<n, p, e>> : p \in Nodes \ {except}}

\* relay: a send of its own to every relaying peer except the origin; w is
\* the traffic besides.
relay(n, e, except, w) ==
    wire' = w \cup {<<n, p, e>> : p \in Links[n] \ {except}}

\* Mutant of recordProfile: the latest to arrive counts.
recordAnyProfile(n, e) ==
    profiles' = IF e.type = "profile" THEN [profiles EXCEPT ![n][e.sender] = e] ELSE profiles

\* recordProfile: keep the newest, as long as it is still stored.
recordProfile(n, e) ==
    LET cur == profiles[n][e.sender]
        keep == cur # None /\ cur \in store[n] /\ cur.ts >= e.ts
    IN  profiles' = IF e.type = "profile" /\ ~keep
                    THEN [profiles EXCEPT ![n][e.sender] = e]
                    ELSE profiles

\* Mutant of mayDelete: whoever asks.
anyoneDeletes(n, d) == d.target \in store[n]

\* handleDelete up to the verdict: the target is stored, and the delete comes
\* from its author or from the owner of the guestbook it was written in.
mayDelete(n, d) ==
    /\ d.target \in store[n]
    /\ \/ d.target.sender = d.sender
       \/ d.target.type = "guestbook" /\ d.target.target = d.sender

\* Mutant of putStat: whatever exists is written, and relayed, again.
putBlind(n, s, e) == setHandler(n, s, [pc |-> "put", env |-> e])

\* The Stat of Put: a pump drops what exists, HandleSend goes on with it.
putStat(n, s, e) ==
    \/ e \notin store[n] /\ setHandler(n, s, [pc |-> "put", env |-> e])
    \/ e \in store[n] /\ s = Client /\ setHandler(n, s, [pc |-> "stored", env |-> e])
    \/ e \in store[n] /\ s # Client /\ UNCHANGED handler

\* The switch of handleEnvelope and HandleSend, up to Put's Stat for content
\* and handleDelete's Get for a delete; w is the traffic left.
dispatch(n, s, e, w) ==
    \/ e.type \in Content /\ putStat(n, s, e) /\ wire' = w
    \/ e.type = "ack" /\ relay(n, e, s, w) /\ UNCHANGED handler
    \/ /\ e.type = "delete" /\ mayDelete(n, e)
       /\ setHandler(n, s, [pc |-> "delete", env |-> e])
       /\ wire' = w
    \/ /\ e.type = "delete" /\ ~mayDelete(n, e)
       /\ wire' = w /\ UNCHANGED handler

-----------------------------------------------------------------------------
(* Actions.                                                                *)

\* The client hands in an envelope it has just signed; one that deletes or
\* acknowledges another comes after it.  A rejected delete changes nothing.
HandleSend(n, e) ==
    /\ e.home = n /\ e \notin submitted
    /\ handler[n][Client] = Idle
    /\ \A f \in stale : e.ts > f.ts
    /\ e.type \in {"ack", "delete"} => e.target \in submitted
    /\ e.type = "delete" => mayDelete(n, e)
    /\ submitted' = submitted \cup {e}
    /\ dispatch(n, Client, e, wire)
    /\ UNCHANGED <<store, profiles, gone, evicted, stale, faults>>

\* Mutant of Receive: the timestamp is not validated.
ReceiveStale(n, p, e) ==
    /\ <<p, n, e>> \in wire
    /\ handler[n][p] = Idle
    /\ dispatch(n, p, e, wire \ {<<p, n, e>>})
    /\ UNCHANGED <<store, profiles, gone, evicted, submitted, stale, faults>>

\* The pump of n's session with p takes envelope e to handleEnvelope, which
\* drops it when it is too old.
Receive(n, p, e) ==
    LET rest == wire \ {<<p, n, e>>}
    IN  /\ <<p, n, e>> \in wire
        /\ handler[n][p] = Idle
        /\ \/ e \notin stale /\ dispatch(n, p, e, rest)
           \/ e \in stale /\ wire' = rest /\ UNCHANGED handler
        /\ UNCHANGED <<store, profiles, gone, evicted, submitted, stale, faults>>

\* Put renames its temp file into place.
Rename(n, s) ==
    LET h == handler[n][s]
    IN  /\ h.pc = "put"
        /\ store' = [store EXCEPT ![n] = @ \cup {h.env}]
        /\ setHandler(n, s, [pc |-> "stored", env |-> h.env])
        /\ UNCHANGED <<profiles, wire, gone, evicted, submitted, stale, faults>>

\* Mutant of Publish: only what the local client sends is relayed.
PublishOwn(n, s) ==
    LET h == handler[n][s]
    IN  /\ h.pc = "stored"
        /\ recordProfile(n, h.env)
        /\ IF s = Client THEN relay(n, h.env, s, wire) ELSE UNCHANGED wire
        /\ setHandler(n, s, Idle)
        /\ UNCHANGED <<store, gone, evicted, submitted, stale, faults>>

\* The rest of the content case: recordProfile, then relay.
Publish(n, s) ==
    LET h == handler[n][s]
    IN  /\ h.pc = "stored"
        /\ recordProfile(n, h.env)
        /\ relay(n, h.env, s, wire)
        /\ setHandler(n, s, Idle)
        /\ UNCHANGED <<store, gone, evicted, submitted, stale, faults>>

\* The rest of handleDelete, and relay.
Delete(n, s) ==
    LET h == handler[n][s]
    IN  /\ h.pc = "delete"
        /\ store' = [store EXCEPT ![n] = @ \ {h.env.target}]
        /\ relay(n, h.env, s, wire)
        /\ setHandler(n, s, Idle)
        /\ UNCHANGED <<profiles, gone, evicted, submitted, stale, faults>>

\* MaxMessageAge passes for an envelope, and so for those with an earlier
\* timestamp.
Age(e) ==
    /\ e \in submitted \ stale
    /\ stale' = stale \cup {f \in submitted : f.ts <= e.ts}
    /\ UNCHANGED <<store, profiles, handler, wire, gone, evicted, submitted, faults>>

\* The authors whose last profile n recorded a week ago: what it stores of
\* theirs is old, and what a handler has yet to record came after the week.
inactive(n) ==
    {a \in Authors :
        /\ profiles[n][a] \in stale
        /\ \A s \in Sources(n) :
            LET h == handler[n][s]
            IN  h.pc # "idle" /\ Profile(h.env, a) => h.env.ts > profiles[n][a].ts
        /\ \A e \in store[n] \ stale :
            Profile(e, a) => \E s \in Sources(n) : handler[n][s].env = e}

\* What Store.Prune may find older than the retention time, which is days
\* after the last handler that accepted it has finished.
prunable(n) == {e \in store[n] \cap stale : \A s \in Sources(n) : handler[n][s].env # e}

\* A tick of pruneLoop: Store.Prune removes old objects; then
\* pruneTrackedPeerState forgets profiles nobody has sent for a week, which
\* may still be stored.
Prune(n) ==
    \E old \in SUBSET prunable(n), quiet \in SUBSET inactive(n) :
        /\ old # {} \/ quiet # {}
        /\ store' = [store EXCEPT ![n] = @ \ old]
        /\ gone' = gone \cup {<<n, e>> : e \in old}
        /\ profiles' = [profiles EXCEPT ![n] =
                          [a \in Authors |-> IF a \in quiet THEN None ELSE @[a]]]
        /\ evicted' = evicted \cup {<<n, profiles[n][a]>> : a \in quiet}
        /\ UNCHANGED <<handler, wire, submitted, stale, faults>>

spend(n, what) == <<n, what>> \in faults /\ faults' = faults \ {<<n, what>>}

\* Mutant of PruneTemp: the handler takes the failed rename for a Put.
PruneTempAnyway(n, s) ==
    /\ handler[n][s].pc = "put"
    /\ spend(n, "tmp")
    /\ setHandler(n, s, [handler[n][s] EXCEPT !.pc = "stored"])
    /\ UNCHANGED <<store, profiles, wire, gone, evicted, submitted, stale>>

\* Prune finds the temp file of a Put, which does not decode yet, and removes
\* it: the rename fails and the handler returns.
PruneTemp(n, s) ==
    /\ handler[n][s].pc = "put"
    /\ spend(n, "tmp")
    /\ setHandler(n, s, Idle)
    /\ UNCHANGED <<store, profiles, wire, gone, evicted, submitted, stale>>

\* A send fails, or allowRate drops what it brought.
Lose(n) ==
    /\ spend(n, "loss")
    /\ \E m \in wire : m[2] = n /\ wire' = wire \ {m}
    /\ UNCHANGED <<store, profiles, handler, gone, evicted, submitted, stale>>

\* The daemon stops and starts: only the objects are on disk.
Crash(n) ==
    /\ spend(n, "crash")
    /\ profiles' = [profiles EXCEPT ![n] = [a \in Authors |-> None]]
    /\ handler' = [handler EXCEPT ![n] = [s \in Sources(n) |-> Idle]]
    /\ wire' = {m \in wire : n \notin {m[1], m[2]}}
    /\ UNCHANGED <<store, gone, evicted, submitted, stale>>

Work(n, s) == Rename(n, s) \/ Publish(n, s) \/ Delete(n, s)

Next ==
    \/ \E n \in Nodes :
        \/ \E e \in Envs : HandleSend(n, e)
        \/ \E p \in Links[n], e \in Envs : Receive(n, p, e)
        \/ \E s \in Sources(n) : Work(n, s) \/ PruneTemp(n, s)
        \/ Prune(n) \/ Lose(n) \/ Crash(n)
    \/ \E e \in Envs : Age(e)

Spec == Init /\ [][Next]_vars

\* Pumps and handlers keep running; a send that is not lost arrives, and what
\* arrived waits in an inbox, which is a queue: its turn comes.
Fairness ==
    \A n \in Nodes :
        /\ \A p \in Links[n], e \in Envs : WF_vars(Receive(n, p, e))
        /\ \A s \in Sources(n) : WF_vars(Work(n, s))
FairSpec == Spec /\ Fairness

-----------------------------------------------------------------------------
(* Properties.                                                             *)

\* Every variable holds a value of its kind.
TypeOK ==
    /\ store \in [Nodes -> SUBSET submitted]
    /\ \A n \in Nodes : \A a \in Authors :
        profiles[n][a] \in {e \in submitted : Profile(e, a)} \cup {None}
    /\ \A n \in Nodes : \A s \in Sources(n) :
        /\ handler[n][s].pc \in {"idle", "put", "stored", "delete"}
        /\ handler[n][s].env \in submitted \cup {None}
    /\ \A m \in wire : m[1] \in Nodes /\ m[2] \in Links[m[1]] /\ m[3] \in submitted
    /\ gone \subseteq Nodes \X stale /\ evicted \subseteq Nodes \X stale
    /\ stale \subseteq submitted /\ submitted \subseteq Envs
    /\ faults \subseteq Faults

\* d asks for the removal of e, and may.
asks(d, e) ==
    /\ d.type = "delete" /\ d.target = e
    /\ d.sender = e.sender \/ (e.type = "guestbook" /\ d.sender = e.target)

\* "You delete your own content and nothing else": an object that is not
\* old leaves a store only after its author, or the owner of the guestbook
\* it was written in, has asked for it, through whatever handler and
\* however the request travelled.
OnlyOwnersDelete ==
    [][\A n \in Nodes : \A e \in store[n] \ store'[n] :
           e \in stale \/ \E d \in submitted : asks(d, e)]_vars

\* What Prune took does not come back with a copy of the envelope that was
\* still on its way: the timestamp check of handleEnvelope keeps it out.
PrunedStaysGone == \A x \in gone : x[2] \notin store[x[1]]

\* The inductive invariant behind the two: the shape of the state, ...
Shape ==
    /\ store = [n \in Nodes |-> store[n]]
    /\ handler = [n \in Nodes |-> [s \in Sources(n) |-> handler[n][s]]]
\* ... only what was handed in travels or ages, ...
KnownOnly ==
    /\ stale \subseteq submitted
    /\ \A m \in wire : m[3] \in submitted
\* ... or is worked on, ...
WorkKnown ==
    \A n \in Nodes : \A s \in Sources(n) :
        handler[n][s].pc # "idle" => handler[n][s].env \in submitted
\* ... a handler that is about to delete was given the right to, ...
DeletesGranted ==
    \A n \in Nodes : \A s \in Sources(n) :
        LET h == handler[n][s]
        IN  h.pc = "delete" => asks(h.env, h.env.target)
\* ... and no handler is about to store what was pruned.
GoneIsGone ==
    \A x \in gone :
        /\ x[1] \in Nodes /\ x[2] \in stale
        /\ x[2] \notin store[x[1]]
        /\ \A s \in Sources(x[1]) :
            handler[x[1]][s].pc = "put" => handler[x[1]][s].env # x[2]

\* The conjunction of the five, which every step preserves: what a handler
\* carries from one of its steps to the next stays true of the daemon.
IInv == Shape /\ KnownOnly /\ WorkKnown /\ DeletesGranted /\ GoneIsGone

\* What a node has stored and has not since removed, or has removed.
Removed(n, f) == <<n, f>> \in gone \/ \E d \in submitted : asks(d, f)
Known(n, f) == f \in store[n] \/ Removed(n, f)

\* A daemon sends on and records only what it has stored, although Prune may
\* take the temp file from under a Put and the daemon may stop anywhere
\* between the rename and the relay: whoever received content from a node,
\* or saw it in its map of profiles, could ask that node for it, unless it
\* was removed since.
RelayedIsStored ==
    /\ \A m \in wire : m[3].type \in Content => Known(m[1], m[3])
    /\ \A n \in Nodes, a \in Authors : profiles[n][a] # None => Known(n, profiles[n][a])

\* In a daemon that has not restarted, the entry of daemon.profiles that
\* HandleProfile serves is the newest profile of its author that the node
\* stores, in whatever order profiles arrive, except while a handler is at
\* work.  Two things weaken this.  When the recorded profile is removed, the
\* next to arrive is recorded however old it is, so that a stored profile may
\* be newer than the entry, but never newer than all that were removed.  And
\* pruneTrackedPeerState forgets entries whose profiles stay in the store
\* when max_message_age is more than a week: then there is no entry until
\* another profile comes, and that one is newer than what was forgotten.
Uncrashed(n) == <<n, "crash">> \notin Faults \ faults
Outdone(n, a, e) ==
    \/ profiles[n][a] # None /\ e.ts <= profiles[n][a].ts
    \/ \E f \in submitted : Profile(f, a) /\ e.ts <= f.ts /\ Removed(n, f)
    \/ profiles[n][a] = None /\ \E f \in submitted :
        Profile(f, a) /\ e.ts <= f.ts /\ <<n, f>> \in evicted
NewestKnown ==
    \A n \in Nodes, a \in Authors :
        Uncrashed(n) /\ (\A s \in Sources(n) : handler[n][s] = Idle)
        => \A e \in store[n] : Profile(e, a) => Outdone(n, a, e)

\* Content that a client handed in reaches every node before it gets too
\* old, along a cycle even when a message is lost: the drop of duplicates
\* never ends the flood before it was everywhere.
FloodReaches ==
    \A e \in Envs :
        e.type \in Content
        => (e \in submitted ~> (e \in stale \/ \A n \in Nodes : e \in store[n]))

\* Every flood ends: that of content by itself, although the network has
\* cycles and several handlers of a node may find the same object absent;
\* that of acknowledgements, which are stored nowhere and so are relayed
\* round a cycle again and again, by the timestamp check.
FloodsEnd ==
    \A e \in Envs :
        /\ e.type \in Content => <>[](\A m \in wire : m[3] # e)
        /\ e \in stale ~> [](\A m \in wire : m[3] # e)
=============================================================================
