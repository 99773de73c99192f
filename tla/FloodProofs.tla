---------------------------- MODULE FloodProofs ----------------------------
(***************************************************************************)
(* For every network of daemons and every set of envelopes: the types,     *)
(* only owners delete, what was pruned does not come back, of an author's  *)
(* profiles a daemon names the newest it knows, and it relays nothing that *)
(* it has not stored.                                                      *)
(***************************************************************************)
EXTENDS Flood, TLAPS

\* The handlers after a step: that of source s at node n is h.
Becomes(n, s, h) ==
    /\ handler' = [m \in Nodes |-> [t \in Sources(m) |-> handler'[m][t]]]
    /\ \A m \in Nodes : \A t \in Sources(m) :
        handler'[m][t] = IF m = n /\ t = s THEN h ELSE handler[m][t]

\* What setHandler does to every handler of every node.
LEMMA SetHandler ==
    ASSUME Shape, NEW n \in Nodes, NEW s \in Sources(n), NEW h, setHandler(n, s, h)
    PROVE  Becomes(n, s, h)
  BY DEF Shape, setHandler, Becomes

\* What relay puts on the wire was there before or is the envelope.
LEMMA RelayOnly ==
    ASSUME NEW n, NEW e, NEW x, NEW w, relay(n, e, x, w)
    PROVE  \A m \in wire' : m \in w \/ m[3] = e
  BY DEF relay

\* The parts of the invariant that speak of handlers survive a step that
\* gives one handler an envelope which was handed in, which its node has not
\* pruned if it is to be stored, and which may delete its target if it is to.
LEMMA HandlersKeep ==
    ASSUME IInv, NEW n \in Nodes, NEW s \in Sources(n), NEW h, Becomes(n, s, h),
           submitted \subseteq submitted', UNCHANGED <<gone, stale>>,
           h.pc # "idle" => h.env \in submitted',
           h.pc = "delete" => asks(h.env, h.env.target),
           h.pc = "put" => h.env \notin stale
    PROVE  /\ WorkKnown' /\ DeletesGranted'
           /\ \A x \in gone : \A t \in Sources(x[1]) :
                handler'[x[1]][t].pc = "put" => handler'[x[1]][t].env # x[2]
<1>1. WorkKnown'
  BY DEF IInv, WorkKnown, Becomes
<1>2. DeletesGranted'
  BY DEF IInv, DeletesGranted, Becomes, asks
<1>3. ASSUME NEW x \in gone, NEW t \in Sources(x[1]), handler'[x[1]][t].pc = "put"
      PROVE  handler'[x[1]][t].env # x[2]
  <2>1. /\ x[1] \in Nodes /\ x[2] \in stale
        /\ handler[x[1]][t].pc = "put" => handler[x[1]][t].env # x[2]
    BY DEF IInv, GoneIsGone
  <2>2. CASE x[1] = n /\ t = s
    BY <1>3, <2>1, <2>2 DEF Becomes
  <2>3. CASE ~(x[1] = n /\ t = s)
    BY <1>3, <2>1, <2>3 DEF Becomes
  <2> QED BY <2>2, <2>3
<1> QED BY <1>1, <1>2, <1>3

\* The same for a step that moves no handler.
LEMMA HandlersStay ==
    ASSUME IInv, UNCHANGED <<handler, gone, stale, store>>,
           submitted \subseteq submitted'
    PROVE  Shape' /\ WorkKnown' /\ DeletesGranted' /\ GoneIsGone'
  BY DEF IInv, Shape, WorkKnown, DeletesGranted, GoneIsGone, asks

\* The switch of a handler keeps the invariant for an envelope that is not
\* too old.
LEMMA DispatchKeeps ==
    ASSUME IInv, NEW n \in Nodes, NEW s \in Sources(n), NEW e, NEW w,
           e \in submitted', submitted \subseteq submitted', e \notin stale,
           w \subseteq wire, dispatch(n, s, e, w), UNCHANGED <<store, gone, stale>>
    PROVE  IInv'
<1>1. KnownOnly'
  <2>1. wire' = w \/ relay(n, e, s, w)
    BY DEF dispatch
  <2>2. \A m \in wire' : m \in w \/ m[3] = e
    BY <2>1, RelayOnly
  <2> QED BY <2>2 DEF IInv, KnownOnly
<1>2. CASE UNCHANGED handler
  BY <1>1, <1>2, HandlersStay DEF IInv
<1>3. ASSUME NEW h, setHandler(n, s, h), h.env = e, h.pc = "delete" => asks(e, e.target)
      PROVE  IInv'
  <2>1. Becomes(n, s, h)
    BY <1>3, SetHandler DEF IInv
  <2>2. /\ WorkKnown' /\ DeletesGranted'
        /\ \A x \in gone : \A t \in Sources(x[1]) :
             handler'[x[1]][t].pc = "put" => handler'[x[1]][t].env # x[2]
    BY <1>3, <2>1, HandlersKeep
  <2>3. Shape'
    BY <2>1 DEF IInv, Shape, Becomes
  <2>4. GoneIsGone'
    BY <2>2 DEF IInv, GoneIsGone
  <2> QED BY <1>1, <2>2, <2>3, <2>4 DEF IInv
<1>4. CASE putStat(n, s, e)
  <2>1. CASE setHandler(n, s, [pc |-> "put", env |-> e])
    BY <2>1, <1>3
  <2>2. CASE setHandler(n, s, [pc |-> "stored", env |-> e])
    BY <2>2, <1>3
  <2> QED BY <1>2, <1>4, <2>1, <2>2 DEF putStat
<1>5. CASE e.type = "delete" /\ mayDelete(n, e) /\ setHandler(n, s, [pc |-> "delete", env |-> e])
  <2>1. asks(e, e.target)
    BY <1>5 DEF mayDelete, asks
  <2> QED BY <1>3, <1>5, <2>1
<1> QED BY <1>2, <1>4, <1>5 DEF dispatch

\* The initial state satisfies the invariant.
LEMMA InitInv == Init => IInv
<1> SUFFICES ASSUME Init PROVE IInv
  OBVIOUS
<1>1. Shape
  BY DEF Init, Shape
<1>2. KnownOnly /\ GoneIsGone
  BY DEF Init, KnownOnly, GoneIsGone
<1>3. WorkKnown /\ DeletesGranted
  BY DEF Init, WorkKnown, DeletesGranted, Idle
<1> QED BY <1>1, <1>2, <1>3 DEF IInv

\* A handler that finishes, with the relay of its envelope and whatever it
\* removed from its node's store, keeps the invariant.
LEMMA FinishKeeps ==
    ASSUME IInv, NEW n \in Nodes, NEW s \in Sources(n), NEW w,
           setHandler(n, s, Idle), UNCHANGED <<gone, stale, submitted>>,
           \A m \in wire' : m \in wire \/ m[3] \in submitted,
           store' = [store EXCEPT ![n] = w], w \subseteq store[n]
    PROVE  IInv'
<1>1. Becomes(n, s, Idle)
  BY SetHandler DEF IInv
<1>2. Idle.pc = "idle"
  BY DEF Idle
<1>3. /\ WorkKnown' /\ DeletesGranted'
      /\ \A x \in gone : \A t \in Sources(x[1]) :
           handler'[x[1]][t].pc = "put" => handler'[x[1]][t].env # x[2]
  BY <1>1, <1>2, HandlersKeep
<1>4. /\ store' = [m \in Nodes |-> store'[m]]
      /\ \A m \in Nodes : store'[m] \subseteq store[m]
  BY DEF IInv, Shape
<1>5. Shape' /\ KnownOnly'
  BY <1>1, <1>4 DEF IInv, Shape, KnownOnly, Becomes
<1>6. GoneIsGone'
  BY <1>3, <1>4 DEF IInv, GoneIsGone
<1> QED BY <1>3, <1>5, <1>6 DEF IInv

\* Every step of the daemons, of time and of the faults preserves it.
LEMMA NextInv == IInv /\ [Next]_vars => IInv'
<1> SUFFICES ASSUME IInv, [Next]_vars PROVE IInv'
  OBVIOUS
<1>1. ASSUME NEW n \in Nodes, NEW e \in Envs, HandleSend(n, e) PROVE IInv'
  <2>1. Client \in Sources(n)
    BY DEF Sources
  <2>2. e \notin stale
    BY <1>1 DEF HandleSend, IInv, KnownOnly
  <2>3. /\ e \in submitted' /\ submitted \subseteq submitted'
        /\ dispatch(n, Client, e, wire) /\ UNCHANGED <<store, gone, stale>>
    BY <1>1 DEF HandleSend
  <2> QED BY <2>1, <2>2, <2>3, DispatchKeeps
<1>2. ASSUME NEW n \in Nodes, NEW p \in Links[n], NEW e \in Envs, Receive(n, p, e)
      PROVE  IInv'
  <2>1. p \in Sources(n)
    BY DEF Sources
  <2>2. /\ <<p, n, e>> \in wire
        /\ \/ e \notin stale /\ dispatch(n, p, e, wire \ {<<p, n, e>>})
           \/ wire' = wire \ {<<p, n, e>>} /\ UNCHANGED handler
    BY <1>2 DEF Receive
  <2>3. UNCHANGED <<store, gone, stale, submitted>>
    BY <1>2 DEF Receive
  <2>4. <<p, n, e>>[3] = e
    OBVIOUS
  <2>5. e \in submitted'
    BY <2>2, <2>3, <2>4 DEF IInv, KnownOnly
  <2>6. CASE e \notin stale /\ dispatch(n, p, e, wire \ {<<p, n, e>>})
    <3>1. wire \ {<<p, n, e>>} \subseteq wire
      OBVIOUS
    <3> QED BY <2>1, <2>3, <2>5, <2>6, <3>1, DispatchKeeps
  <2>7. CASE wire' = wire \ {<<p, n, e>>} /\ UNCHANGED handler
    <3>1. KnownOnly'
      BY <2>3, <2>7 DEF IInv, KnownOnly
    <3> QED BY <2>3, <2>7, <3>1, HandlersStay DEF IInv
  <2> QED BY <2>2, <2>6, <2>7
<1>3. ASSUME NEW n \in Nodes, NEW s \in Sources(n), Rename(n, s) PROVE IInv'
  <2> DEFINE h == handler[n][s]
  <2> DEFINE k == [pc |-> "stored", env |-> h.env]
  <2>1. /\ h.pc = "put" /\ setHandler(n, s, k)
        /\ store' = [store EXCEPT ![n] = @ \cup {h.env}]
        /\ UNCHANGED <<gone, stale, submitted, wire>>
    BY <1>3 DEF Rename
  <2>2. h.env \in submitted
    BY <2>1 DEF IInv, WorkKnown
  <2>3. Becomes(n, s, k)
    BY <2>1, SetHandler DEF IInv
  <2>4. k.pc = "stored" /\ k.env = h.env
    OBVIOUS
  <2> HIDE DEF k
  <2>5. /\ WorkKnown' /\ DeletesGranted'
        /\ \A x \in gone : \A t \in Sources(x[1]) :
             handler'[x[1]][t].pc = "put" => handler'[x[1]][t].env # x[2]
    BY <2>1, <2>2, <2>3, <2>4, HandlersKeep
  <2>6. /\ store' = [m \in Nodes |-> store'[m]]
        /\ \A m \in Nodes : store'[m] = IF m = n THEN store[n] \cup {h.env} ELSE store[m]
    BY <2>1 DEF IInv, Shape
  <2>7. ASSUME NEW x \in gone PROVE x[2] \notin store'[x[1]]
    <3>1. x[1] \in Nodes /\ x[2] \notin store[x[1]] /\ (x[1] = n => h.env # x[2])
      BY <2>1 DEF IInv, GoneIsGone
    <3> QED BY <2>6, <3>1
  <2>8. Shape' /\ KnownOnly'
    BY <2>1, <2>3, <2>6 DEF IInv, Shape, KnownOnly, Becomes
  <2>9. GoneIsGone'
    BY <2>1, <2>5, <2>7 DEF IInv, GoneIsGone
  <2> QED BY <2>5, <2>8, <2>9 DEF IInv
<1>4. ASSUME NEW n \in Nodes, NEW s \in Sources(n), Publish(n, s) PROVE IInv'
  <2>1. /\ handler[n][s].pc = "stored" /\ setHandler(n, s, Idle)
        /\ relay(n, handler[n][s].env, s, wire)
        /\ UNCHANGED <<store, gone, stale, submitted>>
    BY <1>4 DEF Publish
  <2>2. handler[n][s].env \in submitted
    BY <2>1 DEF IInv, WorkKnown
  <2>3. \A m \in wire' : m \in wire \/ m[3] \in submitted
    BY <2>1, <2>2, RelayOnly
  <2>4. store' = [store EXCEPT ![n] = store[n]]
    BY <2>1 DEF IInv, Shape
  <2> QED BY <2>1, <2>3, <2>4, FinishKeeps
<1>5. ASSUME NEW n \in Nodes, NEW s \in Sources(n), Delete(n, s) PROVE IInv'
  <2>1. /\ handler[n][s].pc = "delete" /\ setHandler(n, s, Idle)
        /\ relay(n, handler[n][s].env, s, wire)
        /\ store' = [store EXCEPT ![n] = store[n] \ {handler[n][s].env.target}]
        /\ UNCHANGED <<gone, stale, submitted>>
    BY <1>5 DEF Delete
  <2>2. handler[n][s].env \in submitted
    BY <2>1 DEF IInv, WorkKnown
  <2>3. \A m \in wire' : m \in wire \/ m[3] \in submitted
    BY <2>1, <2>2, RelayOnly
  <2>4. store[n] \ {handler[n][s].env.target} \subseteq store[n]
    OBVIOUS
  <2> QED BY <2>1, <2>3, <2>4, FinishKeeps
<1>6. ASSUME NEW n \in Nodes, NEW s \in Sources(n), PruneTemp(n, s) PROVE IInv'
  <2>1. /\ setHandler(n, s, Idle) /\ wire' = wire
        /\ UNCHANGED <<store, gone, stale, submitted>>
    BY <1>6 DEF PruneTemp
  <2>2. store' = [store EXCEPT ![n] = store[n]]
    BY <2>1 DEF IInv, Shape
  <2> QED BY <2>1, <2>2, FinishKeeps
<1>7. ASSUME NEW n \in Nodes, Prune(n) PROVE IInv'
  <2>1. PICK old \in SUBSET (store[n] \cap stale) :
          /\ \A s \in Sources(n) : handler[n][s].env \notin old
          /\ store' = [store EXCEPT ![n] = @ \ old]
          /\ gone' = gone \cup {<<n, e>> : e \in old}
    BY <1>7 DEF Prune, prunable
  <2>2. UNCHANGED <<handler, wire, submitted, stale>>
    BY <1>7 DEF Prune, prunable
  <2>3. /\ store' = [m \in Nodes |-> store'[m]]
        /\ \A m \in Nodes : store'[m] = IF m = n THEN store[n] \ old ELSE store[m]
    BY <2>1 DEF IInv, Shape
  <2>4. Shape' /\ KnownOnly' /\ WorkKnown' /\ DeletesGranted'
    BY <2>2, <2>3 DEF IInv, Shape, KnownOnly, WorkKnown, DeletesGranted, asks
  <2>6. ASSUME NEW x \in gone' PROVE
          /\ x[1] \in Nodes /\ x[2] \in stale'
          /\ x[2] \notin store'[x[1]]
          /\ \A s \in Sources(x[1]) :
               handler'[x[1]][s].pc = "put" => handler'[x[1]][s].env # x[2]
    <3>1. CASE x \in gone
      BY <2>2, <2>3, <3>1 DEF IInv, GoneIsGone
    <3>2. CASE x \notin gone
      <4>1. PICK e \in old : x = <<n, e>>
        BY <2>1, <3>2
      <4>2. x[1] = n /\ x[2] = e
        BY <4>1
      <4> QED BY <2>1, <2>2, <2>3, <4>2
    <3> QED BY <3>1, <3>2
  <2>7. GoneIsGone'
    BY <2>6 DEF GoneIsGone
  <2> QED BY <2>4, <2>7 DEF IInv
<1>8. ASSUME NEW n \in Nodes, Lose(n) PROVE IInv'
  <2>1. wire' \subseteq wire /\ UNCHANGED <<handler, store, gone, stale, submitted>>
    BY <1>8 DEF Lose
  <2>2. KnownOnly'
    BY <2>1 DEF IInv, KnownOnly
  <2> QED BY <2>1, <2>2, HandlersStay DEF IInv
<1>9. ASSUME NEW n \in Nodes, Crash(n) PROVE IInv'
  <2>1. /\ handler' = [handler EXCEPT ![n] = [s \in Sources(n) |-> Idle]]
        /\ wire' \subseteq wire /\ UNCHANGED <<store, gone, stale, submitted>>
    BY <1>9 DEF Crash
  <2>2. /\ handler' = [m \in Nodes |-> [t \in Sources(m) |-> handler'[m][t]]]
        /\ \A m \in Nodes : \A t \in Sources(m) :
              handler'[m][t] = IF m = n THEN Idle ELSE handler[m][t]
    BY <2>1 DEF IInv, Shape
  <2>3. Shape' /\ KnownOnly'
    BY <2>1, <2>2 DEF IInv, Shape, KnownOnly
  <2>4. WorkKnown' /\ DeletesGranted'
    BY <2>1, <2>2 DEF IInv, WorkKnown, DeletesGranted, asks, Idle
  <2>5. GoneIsGone'
    BY <2>1, <2>2 DEF IInv, GoneIsGone, Idle
  <2> QED BY <2>3, <2>4, <2>5 DEF IInv
<1>10. ASSUME NEW e \in Envs, Age(e) PROVE IInv'
  <2>1. /\ stale \subseteq stale' /\ stale' \subseteq submitted
        /\ UNCHANGED <<store, handler, wire, gone, submitted>>
    BY <1>10 DEF Age, IInv, KnownOnly
  <2> QED BY <2>1 DEF IInv, Shape, KnownOnly, WorkKnown, DeletesGranted, GoneIsGone, asks
<1>11. CASE UNCHANGED vars
  BY <1>11 DEF vars, IInv, Shape, KnownOnly, WorkKnown, DeletesGranted, GoneIsGone, asks
<1> QED BY <1>1, <1>2, <1>3, <1>4, <1>5, <1>6, <1>7, <1>8, <1>9, <1>10, <1>11 DEF Next, Work

\* The invariant holds throughout.
THEOREM InvHolds == Spec => []IInv
  BY InitInv, NextInv, PTL DEF Spec

\* What Prune removed from a node's store never returns to it, although
\* copies of the envelope may still be on their way: handleEnvelope and
\* HandleSend take nothing that is too old.
THEOREM PrunedForGood == Spec => []PrunedStaysGone
<1>1. IInv => PrunedStaysGone
  BY DEF IInv, GoneIsGone, PrunedStaysGone
<1> QED BY <1>1, InvHolds, PTL

\* An object leaves a store before its time only because someone who may
\* delete it asked for that, whatever handlers run at the same time and
\* whatever happened between a handler's look at the target and its removal.
THEOREM DeletesAreOwned == Spec => OnlyOwnersDelete
<1>1. ASSUME IInv, [Next]_vars
      PROVE  [\A n \in Nodes : \A e \in store[n] \ store'[n] :
                e \in stale \/ \E d \in submitted : asks(d, e)]_vars
  <2> SUFFICES ASSUME Next, NEW n \in Nodes, NEW e \in store[n] \ store'[n]
               PROVE  e \in stale \/ \E d \in submitted : asks(d, e)
    BY <1>1
  <2>1. store' # store
    OBVIOUS
  <2>2. ASSUME NEW m \in Nodes, NEW s \in Sources(m), Rename(m, s) PROVE FALSE
    <3>1. store' = [store EXCEPT ![m] = @ \cup {handler[m][s].env}]
      BY <2>2 DEF Rename
    <3> QED BY <1>1, <3>1 DEF IInv, Shape
  <2>3. ASSUME NEW m \in Nodes, NEW s \in Sources(m), Delete(m, s)
        PROVE  \E d \in submitted : asks(d, e)
    <3>1. /\ handler[m][s].pc = "delete"
          /\ store' = [store EXCEPT ![m] = @ \ {handler[m][s].env.target}]
      BY <2>3 DEF Delete
    <3>2. e = handler[m][s].env.target
      BY <1>1, <3>1 DEF IInv, Shape
    <3>3. handler[m][s].env \in submitted /\ asks(handler[m][s].env, handler[m][s].env.target)
      BY <1>1, <3>1 DEF IInv, WorkKnown, DeletesGranted
    <3> QED BY <3>2, <3>3
  <2>4. ASSUME NEW m \in Nodes, Prune(m) PROVE e \in stale
    <3>1. PICK old \in SUBSET (store[m] \cap stale) : store' = [store EXCEPT ![m] = @ \ old]
      BY <2>4 DEF Prune, prunable
    <3> QED BY <1>1, <3>1 DEF IInv, Shape
  <2>5. \/ \E m \in Nodes : \E s \in Sources(m) : Rename(m, s) \/ Delete(m, s)
        \/ \E m \in Nodes : Prune(m)
        \/ UNCHANGED store
    BY DEF Next, Work, HandleSend, Receive, Publish, PruneTemp, Lose, Crash, Age
  <2> QED BY <2>1, <2>2, <2>3, <2>4, <2>5
<1> QED BY <1>1, InvHolds, PTL DEF Spec, OnlyOwnersDelete

-----------------------------------------------------------------------------
(* Types.                                                                  *)

\* TypeOK in parts, with the shape of the map of profiles.
TStore == store \in [Nodes -> SUBSET submitted]
TProfiles ==
    /\ profiles = [n \in Nodes |-> [a \in Authors |-> profiles[n][a]]]
    /\ \A n \in Nodes : \A a \in Authors :
        profiles[n][a] \in {e \in submitted : Profile(e, a)} \cup {None}
THandlers ==
    \A n \in Nodes : \A s \in Sources(n) :
        /\ handler[n][s].pc \in {"idle", "put", "stored", "delete"}
        /\ handler[n][s].env \in submitted \cup {None}
TWire == \A m \in wire : m[1] \in Nodes /\ m[2] \in Links[m[1]] /\ m[3] \in submitted
TSets ==
    /\ gone \subseteq Nodes \X stale /\ evicted \subseteq Nodes \X stale
    /\ stale \subseteq submitted /\ submitted \subseteq Envs
    /\ faults \subseteq Faults
TInv == TStore /\ TProfiles /\ THandlers /\ TWire /\ TSets

\* Every handler but one keeps its state.
LEMMA HandlerTypes ==
    ASSUME TInv, NEW n \in Nodes, NEW s \in Sources(n), NEW h, Becomes(n, s, h),
           submitted \subseteq submitted',
           h.pc \in {"idle", "put", "stored", "delete"}, h.env \in submitted' \cup {None}
    PROVE  THandlers'
  BY DEF TInv, THandlers, Becomes

\* What relay adds to the wire goes to a peer.
LEMMA RelayTypes ==
    ASSUME TInv, NEW n \in Nodes, NEW s, NEW e \in submitted', NEW w \in SUBSET wire,
           submitted \subseteq submitted', relay(n, e, s, w)
    PROVE  TWire'
<1> SUFFICES ASSUME NEW m \in wire'
             PROVE  m[1] \in Nodes /\ m[2] \in Links[m[1]] /\ m[3] \in submitted'
  BY DEF TWire
<1>1. CASE m \in w
  BY <1>1 DEF TInv, TWire
<1>2. CASE m \notin w
  <2>1. PICK p \in Links[n] : m = <<n, p, e>>
    BY <1>2 DEF relay
  <2> QED BY <2>1
<1> QED BY <1>1, <1>2

LEMMA DispatchTypes ==
    ASSUME IInv, TInv, NEW n \in Nodes, NEW s \in Sources(n), NEW e \in submitted',
           NEW w \in SUBSET wire, submitted \subseteq submitted', dispatch(n, s, e, w)
    PROVE  THandlers' /\ TWire'
<1>1. TWire'
  <2>1. wire' = w \/ relay(n, e, s, w)
    BY DEF dispatch
  <2>2. CASE wire' = w
    BY <2>2 DEF TInv, TWire
  <2> QED BY <2>1, <2>2, RelayTypes
<1>2. CASE UNCHANGED handler
  BY <1>1, <1>2 DEF TInv, THandlers
<1>3. ASSUME NEW k \in {"put", "stored", "delete"}, setHandler(n, s, [pc |-> k, env |-> e])
      PROVE  THandlers'
  <2>1. Becomes(n, s, [pc |-> k, env |-> e])
    BY <1>3, SetHandler DEF IInv
  <2> QED BY <2>1, HandlerTypes
<1> QED BY <1>1, <1>2, <1>3 DEF dispatch, putStat

\* The handler that finishes.
LEMMA IdleTypes ==
    ASSUME IInv, TInv, NEW n \in Nodes, NEW s \in Sources(n), setHandler(n, s, Idle),
           submitted \subseteq submitted'
    PROVE  THandlers'
<1>1. Becomes(n, s, Idle)
  BY SetHandler DEF IInv
<1>2. Idle.pc = "idle" /\ Idle.env = None
  BY DEF Idle
<1> QED BY <1>1, <1>2, HandlerTypes

\* recordProfile keeps profiles, and changes at most the author's entry.
LEMMA RecordTypes ==
    ASSUME TInv, NEW n \in Nodes, NEW e \in submitted, recordProfile(n, e), UNCHANGED submitted
    PROVE  /\ TProfiles'
           /\ \A m \in Nodes : \A a \in Authors :
                \/ profiles'[m][a] = profiles[m][a]
                \/ m = n /\ a = e.sender /\ e.type = "profile" /\ profiles'[m][a] = e
<1>1. e \in Envs /\ e.sender \in Authors
  BY DEF TInv, TSets, Authors
<1>2. CASE profiles' = profiles
  BY <1>2 DEF TInv, TProfiles, Profile
<1>3. CASE e.type = "profile" /\ profiles' = [profiles EXCEPT ![n][e.sender] = e]
  <2>1. /\ profiles' = [m \in Nodes |-> [a \in Authors |-> profiles'[m][a]]]
        /\ \A m \in Nodes : \A a \in Authors :
             profiles'[m][a] = IF m = n /\ a = e.sender THEN e ELSE profiles[m][a]
    BY <1>1, <1>3 DEF TInv, TProfiles
  <2> QED BY <1>3, <2>1 DEF TInv, TProfiles, Profile
<1> QED BY <1>2, <1>3 DEF recordProfile

\* Types survive every step.
LEMMA TypeStep == IInv /\ TInv /\ [Next]_vars => TInv'
<1> SUFFICES ASSUME IInv, TInv, [Next]_vars PROVE TInv'
  OBVIOUS
<1>0. /\ TStore /\ TProfiles /\ THandlers /\ TWire /\ TSets
      /\ \A n \in Nodes : store[n] \subseteq submitted
  BY DEF TInv, TStore
<1>1. ASSUME NEW n \in Nodes, NEW e \in Envs, HandleSend(n, e) PROVE TInv'
  <2>1. Client \in Sources(n)
    BY DEF Sources
  <2>2. /\ e \in submitted' /\ submitted \subseteq submitted' /\ submitted' \subseteq Envs
        /\ dispatch(n, Client, e, wire) /\ UNCHANGED <<store, profiles, gone, evicted, stale, faults>>
    BY <1>0, <1>1 DEF HandleSend, TSets
  <2>3. THandlers' /\ TWire'
    BY <2>1, <2>2, DispatchTypes
  <2>4. TStore' /\ TProfiles' /\ TSets'
    BY <1>0, <2>2 DEF TStore, TProfiles, TSets
  <2> QED BY <2>3, <2>4 DEF TInv
<1>2. ASSUME NEW n \in Nodes, NEW p \in Links[n], NEW e \in Envs, Receive(n, p, e)
      PROVE  TInv'
  <2> DEFINE rest == wire \ {<<p, n, e>>}
  <2>1. p \in Sources(n) /\ rest \in SUBSET wire
    BY DEF Sources
  <2>2. /\ <<p, n, e>> \in wire
        /\ dispatch(n, p, e, rest) \/ (wire' = rest /\ UNCHANGED handler)
        /\ UNCHANGED <<store, profiles, gone, evicted, submitted, stale, faults>>
    BY <1>2 DEF Receive
  <2>3. e \in submitted' /\ submitted \subseteq submitted'
    BY <1>0, <2>2 DEF TWire
  <2> HIDE DEF rest
  <2>4. CASE dispatch(n, p, e, rest)
    <3>1. THandlers' /\ TWire'
      BY <2>1, <2>3, <2>4, DispatchTypes
    <3> QED BY <1>0, <2>2, <3>1 DEF TInv, TStore, TProfiles, TSets
  <2>5. CASE wire' = rest /\ UNCHANGED handler
    BY <1>0, <2>1, <2>2, <2>5 DEF TInv, TStore, TProfiles, THandlers, TWire, TSets
  <2> QED BY <2>2, <2>4, <2>5
<1>3. ASSUME NEW n \in Nodes, NEW s \in Sources(n), Rename(n, s) PROVE TInv'
  <2> DEFINE h == handler[n][s]
             k == [pc |-> "stored", env |-> h.env]
  <2>1. /\ h.pc = "put" /\ setHandler(n, s, k)
        /\ store' = [store EXCEPT ![n] = @ \cup {h.env}]
        /\ UNCHANGED <<profiles, wire, gone, evicted, submitted, stale, faults>>
    BY <1>3 DEF Rename
  <2>2. h.env \in submitted
    BY <2>1 DEF IInv, WorkKnown
  <2>3. Becomes(n, s, k) /\ k.pc = "stored" /\ k.env = h.env
    BY <2>1, SetHandler DEF IInv
  <2> HIDE DEF h, k
  <2>4. THandlers'
    BY <2>1, <2>2, <2>3, HandlerTypes
  <2>5. TStore'
    BY <1>0, <2>1, <2>2 DEF TStore
  <2> QED BY <1>0, <2>1, <2>4, <2>5 DEF TInv, TProfiles, TWire, TSets
<1>4. ASSUME NEW n \in Nodes, NEW s \in Sources(n), Publish(n, s) PROVE TInv'
  <2> DEFINE h == handler[n][s]
  <2>1. /\ h.pc = "stored" /\ setHandler(n, s, Idle)
        /\ recordProfile(n, h.env) /\ relay(n, h.env, s, wire)
        /\ UNCHANGED <<store, gone, evicted, submitted, stale, faults>>
    BY <1>4 DEF Publish
  <2>2. h.env \in submitted
    BY <2>1 DEF IInv, WorkKnown
  <2> HIDE DEF h
  <2>3. THandlers' /\ TWire' /\ TProfiles'
    BY <2>1, <2>2, IdleTypes, RelayTypes, RecordTypes
  <2> QED BY <1>0, <2>1, <2>3 DEF TInv, TStore, TSets
<1>5. ASSUME NEW n \in Nodes, NEW s \in Sources(n), Delete(n, s) PROVE TInv'
  <2> DEFINE h == handler[n][s]
  <2>1. /\ h.pc = "delete" /\ setHandler(n, s, Idle)
        /\ store' = [store EXCEPT ![n] = @ \ {h.env.target}] /\ relay(n, h.env, s, wire)
        /\ UNCHANGED <<profiles, gone, evicted, submitted, stale, faults>>
    BY <1>5 DEF Delete
  <2>2. h.env \in submitted
    BY <2>1 DEF IInv, WorkKnown
  <2> HIDE DEF h
  <2>3. THandlers' /\ TWire'
    BY <2>1, <2>2, IdleTypes, RelayTypes
  <2>4. TStore'
    BY <1>0, <2>1 DEF TStore
  <2> QED BY <1>0, <2>1, <2>3, <2>4 DEF TInv, TProfiles, TSets
<1>6. ASSUME NEW n \in Nodes, NEW s \in Sources(n), PruneTemp(n, s) PROVE TInv'
  <2>1. /\ setHandler(n, s, Idle) /\ faults' \subseteq faults
        /\ UNCHANGED <<store, profiles, wire, gone, evicted, submitted, stale>>
    BY <1>6 DEF PruneTemp, spend
  <2>2. THandlers'
    BY <2>1, IdleTypes
  <2> QED BY <1>0, <2>1, <2>2 DEF TInv, TStore, TProfiles, TWire, TSets
<1>7. ASSUME NEW n \in Nodes, Prune(n) PROVE TInv'
  <2>1. PICK old \in SUBSET (store[n] \cap stale), quiet \in SUBSET inactive(n) :
          /\ store' = [store EXCEPT ![n] = @ \ old]
          /\ gone' = gone \cup {<<n, e>> : e \in old}
          /\ profiles' = [profiles EXCEPT ![n] =
                            [a \in Authors |-> IF a \in quiet THEN None ELSE @[a]]]
          /\ evicted' = evicted \cup {<<n, profiles[n][a]>> : a \in quiet}
          /\ UNCHANGED <<handler, wire, submitted, stale, faults>>
    BY <1>7 DEF Prune, prunable
  <2>2. TStore'
    BY <1>0, <2>1 DEF TStore
  <2>3. TSets'
    <3>1. \A a \in quiet : profiles[n][a] \in stale
      BY <2>1 DEF inactive
    <3> QED BY <1>0, <2>1, <3>1 DEF TSets
  <2>4. TProfiles'
    BY <1>0, <2>1 DEF TProfiles
  <2> QED BY <1>0, <2>1, <2>2, <2>3, <2>4 DEF TInv, THandlers, TWire
<1>8. ASSUME NEW n \in Nodes, Lose(n) PROVE TInv'
  <2>1. /\ wire' \subseteq wire /\ faults' \subseteq faults
        /\ UNCHANGED <<store, profiles, handler, gone, evicted, submitted, stale>>
    BY <1>8 DEF Lose, spend
  <2> QED BY <1>0, <2>1 DEF TInv, TStore, TProfiles, THandlers, TWire, TSets
<1>9. ASSUME NEW n \in Nodes, Crash(n) PROVE TInv'
  <2>1. /\ handler' = [handler EXCEPT ![n] = [s \in Sources(n) |-> Idle]]
        /\ profiles' = [profiles EXCEPT ![n] = [a \in Authors |-> None]]
        /\ wire' \subseteq wire /\ faults' \subseteq faults
        /\ UNCHANGED <<store, gone, evicted, submitted, stale>>
    BY <1>9 DEF Crash, spend
  <2>2. \A m \in Nodes : \A t \in Sources(m) :
           handler'[m][t] = IF m = n THEN Idle ELSE handler[m][t]
    BY <2>1 DEF IInv, Shape
  <2>3. THandlers'
    BY <1>0, <2>1, <2>2 DEF THandlers, Idle
  <2>4. TProfiles'
    BY <1>0, <2>1 DEF TProfiles
  <2> QED BY <1>0, <2>1, <2>3, <2>4 DEF TInv, TStore, TWire, TSets
<1>10. ASSUME NEW e \in Envs, Age(e) PROVE TInv'
  <2>1. /\ stale \subseteq stale' /\ stale' \subseteq submitted
        /\ UNCHANGED <<store, profiles, handler, wire, gone, evicted, submitted, faults>>
    BY <1>0, <1>10 DEF Age, TSets
  <2>2. TSets'
    BY <1>0, <2>1 DEF TSets
  <2> QED BY <1>0, <2>1, <2>2 DEF TInv, TStore, TProfiles, THandlers, TWire
<1>11. CASE UNCHANGED vars
  BY <1>11 DEF vars, TInv, TStore, TProfiles, THandlers, TWire, TSets
<1> QED BY <1>1, <1>2, <1>3, <1>4, <1>5, <1>6, <1>7, <1>8, <1>9, <1>10, <1>11 DEF Next, Work

LEMMA InitTypes == Init => TInv
<1> SUFFICES ASSUME Init PROVE TInv
  OBVIOUS
<1>1. THandlers
  BY DEF Init, THandlers, Idle
<1>2. TProfiles
  BY DEF Init, TProfiles
<1> QED BY <1>1, <1>2 DEF Init, TInv, TStore, TWire, TSets

LEMMA TypesHold == Spec => []TInv
BY InvHolds, InitTypes, TypeStep, PTL DEF Spec

\* Every variable of the daemons holds a value of its kind: stores, profiles,
\* handlers and the wire speak only of envelopes that clients handed in, and
\* a relay goes only to a peer.
THEOREM TypeCorrect == Spec => []TypeOK
<1>1. TInv => TypeOK
  BY DEF TInv, TStore, TProfiles, THandlers, TWire, TSets, TypeOK
<1> QED BY <1>1, TypesHold, PTL

-----------------------------------------------------------------------------
(* Time.                                                                   *)

\* What is too old has an earlier timestamp than what is not; and what a
\* handler is about to store or record is later than any entry of its author
\* that pruneTrackedPeerState has dropped.
Clock ==
    /\ \A f \in stale, e \in submitted \ stale : e.ts > f.ts
    /\ \A x \in evicted : \A s \in Sources(x[1]) :
        LET h == handler[x[1]][s]
        IN  h.pc # "idle" /\ Profile(h.env, x[2].sender) => h.env.ts > x[2].ts

\* A step of a handler that drops no entry keeps it, if what the handler has
\* in hand afterwards it had before, or is not too old.
LEMMA ClockMoves ==
    ASSUME TInv, Clock, UNCHANGED <<evicted, stale>>, NEW n \in Nodes, NEW s \in Sources(n),
           NEW h, UNCHANGED handler \/ Becomes(n, s, h),
           h.pc = "idle" \/ h.env \in submitted' \ stale
           \/ (handler[n][s].pc # "idle" /\ h.env = handler[n][s].env),
           \A e \in submitted' \ submitted : \A f \in stale : e.ts > f.ts
    PROVE  Clock'
<1>1. \A f \in stale, e \in submitted' \ stale : e.ts > f.ts
  BY DEF Clock
<1>2. ASSUME NEW x \in evicted, NEW t \in Sources(x[1]), handler'[x[1]][t].pc # "idle",
             Profile(handler'[x[1]][t].env, x[2].sender)
      PROVE  handler'[x[1]][t].env.ts > x[2].ts
  <2>1. x[1] \in Nodes /\ x[2] \in stale
    BY DEF TInv, TSets
  <2>2. CASE handler'[x[1]][t] = handler[x[1]][t]
    BY <1>2, <2>2 DEF Clock
  <2>3. CASE x[1] = n /\ t = s /\ handler'[n][s] = h
    <3>1. CASE h.env \in submitted' \ stale
      BY <1>1, <2>1, <2>3, <3>1
    <3>2. CASE handler[n][s].pc # "idle" /\ h.env = handler[n][s].env
      BY <1>2, <2>3, <3>2 DEF Clock
    <3> QED BY <1>2, <2>3, <3>1, <3>2
  <2> QED BY <2>1, <2>2, <2>3 DEF Becomes
<1> QED BY <1>1, <1>2 DEF Clock, Sources, Profile

LEMMA DispatchClock ==
    ASSUME IInv, TInv, Clock, NEW n \in Nodes, NEW s \in Sources(n),
           NEW e \in submitted' \ stale, NEW w, dispatch(n, s, e, w),
           UNCHANGED <<evicted, stale>>,
           \A d \in submitted' \ submitted : \A f \in stale : d.ts > f.ts
    PROVE  Clock'
<1>1. ASSUME NEW k, setHandler(n, s, [pc |-> k, env |-> e]) PROVE Clock'
  <2>1. Becomes(n, s, [pc |-> k, env |-> e])
    BY <1>1, SetHandler DEF IInv
  <2>2. [pc |-> k, env |-> e].env = e
    OBVIOUS
  <2> QED BY <2>1, <2>2, ClockMoves
<1>2. CASE UNCHANGED handler
  <2>1. Idle.pc = "idle"
    BY DEF Idle
  <2> QED BY <1>2, <2>1, ClockMoves
<1> QED BY <1>1, <1>2 DEF dispatch, putStat

LEMMA InitClock == Init => Clock
  BY DEF Init, Clock

\* Every step keeps it.
LEMMA ClockStep == IInv /\ TInv /\ Clock /\ [Next]_vars => Clock'
<1> SUFFICES ASSUME IInv, TInv, Clock, [Next]_vars PROVE Clock'
  OBVIOUS
<1>0. /\ Idle.pc = "idle" /\ stale \subseteq submitted /\ submitted \subseteq Envs
      /\ \A e \in submitted : e.ts \in Nat
  BY EnvAssumption DEF Idle, TInv, TSets
<1>1. ASSUME NEW n \in Nodes, NEW e \in Envs, HandleSend(n, e) PROVE Clock'
  <2>1. Client \in Sources(n)
    BY DEF Sources
  <2>2. /\ submitted' = submitted \cup {e} /\ e \notin submitted
        /\ \A f \in stale : e.ts > f.ts
        /\ dispatch(n, Client, e, wire) /\ UNCHANGED <<evicted, stale>>
    BY <1>1 DEF HandleSend
  <2>3. e \in submitted' \ stale
    BY <1>0, <2>2
  <2>4. \A d \in submitted' \ submitted : \A f \in stale : d.ts > f.ts
    BY <2>2
  <2> QED BY <2>1, <2>2, <2>3, <2>4, DispatchClock
<1>2. ASSUME NEW n \in Nodes, NEW p \in Links[n], NEW e \in Envs, Receive(n, p, e)
      PROVE  Clock'
  <2>1. p \in Sources(n)
    BY DEF Sources
  <2>2. /\ <<p, n, e>> \in wire
        /\ (e \notin stale /\ dispatch(n, p, e, wire \ {<<p, n, e>>})) \/ UNCHANGED handler
        /\ UNCHANGED <<evicted, stale, submitted>>
    BY <1>2 DEF Receive
  <2>3. e \in submitted'
    BY <2>2 DEF TInv, TWire
  <2>4. CASE e \notin stale /\ dispatch(n, p, e, wire \ {<<p, n, e>>})
    BY <2>1, <2>2, <2>3, <2>4, DispatchClock
  <2>5. CASE UNCHANGED handler
    BY <1>0, <2>1, <2>2, <2>5, ClockMoves
  <2> QED BY <2>2, <2>4, <2>5
<1>3. ASSUME NEW n \in Nodes, NEW s \in Sources(n), Rename(n, s) PROVE Clock'
  <2> DEFINE k == [pc |-> "stored", env |-> handler[n][s].env]
  <2>1. /\ handler[n][s].pc = "put" /\ setHandler(n, s, k)
        /\ UNCHANGED <<evicted, stale, submitted>>
    BY <1>3 DEF Rename
  <2>2. Becomes(n, s, k) /\ k.env = handler[n][s].env
    BY <2>1, SetHandler DEF IInv
  <2> HIDE DEF k
  <2> QED BY <2>1, <2>2, ClockMoves
<1>4. ASSUME NEW n \in Nodes, NEW s \in Sources(n), setHandler(n, s, Idle),
             UNCHANGED <<evicted, stale, submitted>>
      PROVE  Clock'
  <2>1. Becomes(n, s, Idle)
    BY <1>4, SetHandler DEF IInv
  <2> QED BY <1>0, <1>4, <2>1, ClockMoves
<1>5. ASSUME NEW n \in Nodes, Prune(n) PROVE Clock'
  <2>1. PICK quiet \in SUBSET inactive(n) :
          evicted' = evicted \cup {<<n, profiles[n][a]>> : a \in quiet}
    BY <1>5 DEF Prune, prunable
  <2>2. UNCHANGED <<handler, submitted, stale>>
    BY <1>5 DEF Prune, prunable
  <2>3. ASSUME NEW x \in evicted', NEW s \in Sources(x[1]), handler[x[1]][s].pc # "idle",
               Profile(handler[x[1]][s].env, x[2].sender)
        PROVE  handler[x[1]][s].env.ts > x[2].ts
    <3>1. CASE x \in evicted
      BY <2>3, <3>1 DEF Clock
    <3>2. CASE x \notin evicted
      <4>1. PICK a \in quiet : x = <<n, profiles[n][a]>>
        BY <2>1, <3>2
      <4>2. a \in Authors /\ profiles[n][a] \in stale /\ x[1] = n /\ x[2] = profiles[n][a]
        BY <2>1, <4>1 DEF inactive
      <4>3. x[2].sender = a
        BY <4>2, <1>0, EnvAssumption DEF TInv, TProfiles, Profile
      <4> QED BY <2>1, <2>3, <4>2, <4>3 DEF inactive
    <3> QED BY <3>1, <3>2
  <2> QED BY <2>2, <2>3 DEF Clock
<1>6. ASSUME NEW n \in Nodes, Lose(n) PROVE Clock'
  BY <1>6 DEF Lose, Clock
<1>7. ASSUME NEW n \in Nodes, Crash(n) PROVE Clock'
  <2>1. /\ handler' = [handler EXCEPT ![n] = [s \in Sources(n) |-> Idle]]
        /\ UNCHANGED <<evicted, submitted, stale>>
    BY <1>7 DEF Crash
  <2>2. \A m \in Nodes : \A t \in Sources(m) :
           handler'[m][t] = IF m = n THEN Idle ELSE handler[m][t]
    BY <2>1 DEF IInv, Shape
  <2>3. \A x \in evicted : x[1] \in Nodes
    BY DEF TInv, TSets
  <2> QED BY <1>0, <2>1, <2>2, <2>3 DEF Clock, Profile
<1>8. ASSUME NEW e \in Envs, Age(e) PROVE Clock'
  <2>1. /\ e \in submitted /\ stale' = stale \cup {f \in submitted : f.ts <= e.ts}
        /\ UNCHANGED <<evicted, handler, submitted>>
    BY <1>8 DEF Age
  <2>2. ASSUME NEW f \in stale', NEW d \in submitted \ stale' PROVE d.ts > f.ts
    <3>1. d.ts > e.ts /\ d \notin stale
      BY <1>0, <2>1
    <3> QED BY <1>0, <2>1, <3>1 DEF Clock
  <2> QED BY <2>1, <2>2 DEF Clock
<1>9. CASE UNCHANGED vars
  BY <1>9 DEF vars, Clock
<1>10. ASSUME NEW n \in Nodes, NEW s \in Sources(n),
              Publish(n, s) \/ Delete(n, s) \/ PruneTemp(n, s)
       PROVE  Clock'
  BY <1>4, <1>10 DEF Publish, Delete, PruneTemp
<1> QED BY <1>1, <1>2, <1>3, <1>5, <1>6, <1>7, <1>8, <1>9, <1>10 DEF Next, Work

LEMMA ClockHolds == Spec => []Clock
  BY InvHolds, TypesHold, InitClock, ClockStep, PTL DEF Spec

-----------------------------------------------------------------------------
(* The newest profile.                                                     *)

\* A handler of n is between the rename of e and recordProfile.
Publishing(n, e) == \E s \in Sources(n) : handler[n][s].pc = "stored" /\ handler[n][s].env = e

\* As long as a daemon does not restart: an entry names a profile of its
\* author that was stored here; so is what a handler is about to record; and
\* a stored profile is outdone, or about to be recorded.
RecordedAt(n) ==
    /\ \A a \in Authors : profiles[n][a] # None => Profile(profiles[n][a], a) /\ Known(n, profiles[n][a])
    /\ \A s \in Sources(n) : handler[n][s].pc = "stored" => Known(n, handler[n][s].env)
    /\ \A a \in Authors : \A e \in store[n] :
        Profile(e, a) => Outdone(n, a, e) \/ Publishing(n, e)
Recorded == \A n \in Nodes : Uncrashed(n) => RecordedAt(n)

\* What was removed stays removed.
LEMMA RemovedStays ==
    ASSUME NEW n, NEW f, gone \subseteq gone', submitted \subseteq submitted', Removed(n, f)
    PROVE  Removed(n, f)'
  BY DEF Removed, asks

\* A daemon that has not restarted now had not before.
LEMMA CrashStays ==
    ASSUME faults' \subseteq faults, NEW n, Uncrashed(n)'
    PROVE  Uncrashed(n)
  BY DEF Uncrashed

\* RecordedAt in the next state, with the entry and the handler's envelope
\* named.
LEMMA RecordedNow ==
    ASSUME NEW n,
           \A a \in Authors : \A f :
               profiles'[n][a] = f /\ f # None => Profile(f, a) /\ Known(n, f)',
           \A s \in Sources(n) : \A e :
               handler'[n][s].pc = "stored" /\ handler'[n][s].env = e => Known(n, e)',
           \A a \in Authors : \A e \in store'[n] :
               Profile(e, a) => Outdone(n, a, e)' \/ Publishing(n, e)'
    PROVE  RecordedAt(n)'
<1>1. \A a \in Authors : profiles'[n][a] # None =>
        /\ Profile(profiles'[n][a], a)
        /\ profiles'[n][a] \in store'[n] \/ <<n, profiles'[n][a]>> \in gone' \/ \E d \in submitted' : asks(d, profiles'[n][a])
  BY DEF Known, Removed
<1>2. \A s \in Sources(n) : handler'[n][s].pc = "stored" =>
        handler'[n][s].env \in store'[n] \/ <<n, handler'[n][s].env>> \in gone' \/ \E d \in submitted' : asks(d, handler'[n][s].env)
  BY DEF Known, Removed
<1> QED BY <1>1, <1>2 DEF RecordedAt, Known, Removed, Profile, asks, Sources

\* A node whose entries stay keeps what Recorded says of it when every object
\* it loses is removed, every object that is new is about to be recorded, and
\* no handler forgets to.
LEMMA RecordedStays ==
    ASSUME NEW n \in Nodes, RecordedAt(n), profiles'[n] = profiles[n],
           gone \subseteq gone', evicted \subseteq evicted', submitted \subseteq submitted',
           \A f \in store[n] \ store'[n] : Removed(n, f)',
           \A e \in store'[n] : e \in store[n] \/ Publishing(n, e)',
           \A e : Publishing(n, e) => Publishing(n, e)',
           \A e : Publishing(n, e)' => Publishing(n, e) \/ e \in store'[n]
    PROVE  RecordedAt(n)'
<1>1. \A f : Known(n, f) => Known(n, f)'
  BY RemovedStays DEF Known
<1>2. \A a \in Authors : \A e : Outdone(n, a, e) => Outdone(n, a, e)'
  <2> SUFFICES ASSUME NEW a \in Authors, NEW e, Outdone(n, a, e) PROVE Outdone(n, a, e)'
    OBVIOUS
  <2>1. CASE profiles[n][a] # None /\ e.ts <= profiles[n][a].ts
    BY <2>1 DEF Outdone
  <2>2. CASE \E f \in submitted : Profile(f, a) /\ e.ts <= f.ts /\ Removed(n, f)
    <3>1. PICK f \in submitted : Profile(f, a) /\ e.ts <= f.ts /\ Removed(n, f)
      BY <2>2
    <3>2. f \in submitted' /\ Removed(n, f)'
      BY <3>1, RemovedStays
    <3> QED BY <3>1, <3>2 DEF Outdone, Profile
  <2>3. CASE profiles[n][a] = None /\ \E f \in submitted :
               Profile(f, a) /\ e.ts <= f.ts /\ <<n, f>> \in evicted
    <3>1. PICK f \in submitted : Profile(f, a) /\ e.ts <= f.ts /\ <<n, f>> \in evicted
      BY <2>3
    <3>2. f \in submitted' /\ <<n, f>> \in evicted'
      BY <3>1
    <3> QED BY <2>3, <3>1, <3>2 DEF Outdone, Profile
  <2> QED BY <2>1, <2>2, <2>3 DEF Outdone
<1>3. \A a \in Authors : \A f :
        profiles'[n][a] = f /\ f # None => Profile(f, a) /\ Known(n, f)'
  BY <1>1 DEF RecordedAt
<1>4. \A s \in Sources(n) : \A e :
        handler'[n][s].pc = "stored" /\ handler'[n][s].env = e => Known(n, e)'
  <2> SUFFICES ASSUME NEW s \in Sources(n), NEW e,
                      handler'[n][s].pc = "stored", handler'[n][s].env = e
               PROVE  Known(n, e)'
    OBVIOUS
  <2>1. Publishing(n, e)'
    BY DEF Publishing, Sources
  <2>2. CASE e \in store'[n]
    BY <2>2 DEF Known
  <2>3. CASE Publishing(n, e)
    <3>1. PICK t \in Sources(n) : handler[n][t].pc = "stored" /\ handler[n][t].env = e
      BY <2>3 DEF Publishing
    <3>2. Known(n, e)
      BY <3>1 DEF RecordedAt
    <3> QED BY <3>2, <1>1
  <2> QED BY <2>1, <2>2, <2>3
<1>5. ASSUME NEW a \in Authors, NEW e \in store'[n], Profile(e, a)
      PROVE  Outdone(n, a, e)' \/ Publishing(n, e)'
  <2>1. CASE e \in store[n]
    BY <1>2, <1>5, <2>1 DEF RecordedAt
  <2> QED BY <2>1
<1> QED BY <1>3, <1>4, <1>5, RecordedNow

\* A step that moves no handler and adds no object.
LEMMA RestsRecorded ==
    ASSUME Recorded, UNCHANGED <<profiles, handler>>,
           gone \subseteq gone', evicted \subseteq evicted',
           submitted \subseteq submitted', faults' \subseteq faults,
           \A m \in Nodes : store'[m] \subseteq store[m],
           \A m \in Nodes : \A f \in store[m] \ store'[m] : Removed(m, f)'
    PROVE  Recorded'
<1> SUFFICES ASSUME NEW m \in Nodes, Uncrashed(m)' PROVE RecordedAt(m)'
  BY DEF Recorded
<1>1. RecordedAt(m)
  BY CrashStays DEF Recorded
<1>2. \A e : Publishing(m, e) <=> Publishing(m, e)'
  BY DEF Publishing
<1>3. ASSUME NEW e, Publishing(m, e)' PROVE Publishing(m, e) \/ e \in store'[m]
  BY <1>2, <1>3
<1>4. profiles'[m] = profiles[m]
  OBVIOUS
<1>5. \A f \in store[m] \ store'[m] : Removed(m, f)'
  OBVIOUS
<1>6. \A e \in store'[m] : e \in store[m] \/ Publishing(m, e)'
  OBVIOUS
<1> QED BY <1>1, <1>2, <1>3, <1>4, <1>5, <1>6, RecordedStays

\* A step that moves one handler, which had nothing to record: it may store
\* an object only to record it next, and remove only what may go.
LEMMA MovesRecorded ==
    ASSUME Recorded, NEW n \in Nodes, NEW s \in Sources(n), NEW h, Becomes(n, s, h),
           handler[n][s].pc # "stored",
           h.pc = "stored" => h.env \in store'[n],
           UNCHANGED profiles,
           gone \subseteq gone', evicted \subseteq evicted',
           submitted \subseteq submitted', faults' \subseteq faults,
           \A m \in Nodes : \A f \in store[m] \ store'[m] : Removed(m, f)',
           \A m \in Nodes : \A e \in store'[m] :
               e \in store[m] \/ (m = n /\ h.pc = "stored" /\ h.env = e)
    PROVE  Recorded'
<1> SUFFICES ASSUME NEW m \in Nodes, Uncrashed(m)' PROVE RecordedAt(m)'
  BY DEF Recorded
<1>1. RecordedAt(m)
  BY CrashStays DEF Recorded
<1>2. \A e : Publishing(m, e) => Publishing(m, e)'
  BY DEF Publishing, Becomes
<1>3. ASSUME NEW e, Publishing(m, e)' PROVE Publishing(m, e) \/ e \in store'[m]
  BY <1>3 DEF Publishing, Becomes
<1>4. profiles'[m] = profiles[m]
  OBVIOUS
<1>5. \A f \in store[m] \ store'[m] : Removed(m, f)'
  OBVIOUS
<1>6. ASSUME NEW e \in store'[m] PROVE e \in store[m] \/ Publishing(m, e)'
  <2>1. CASE m = n /\ h.pc = "stored" /\ h.env = e
    <3>1. handler'[n][s] = h
      BY DEF Becomes
    <3> QED BY <2>1, <3>1 DEF Publishing, Sources
  <2> QED BY <2>1
<1> QED BY <1>1, <1>2, <1>3, <1>4, <1>5, <1>6, RecordedStays

\* The switch of a handler.
LEMMA DispatchRecorded ==
    ASSUME IInv, Recorded, NEW n \in Nodes, NEW s \in Sources(n), NEW e, NEW w,
           handler[n][s] = Idle, dispatch(n, s, e, w), submitted \subseteq submitted',
           UNCHANGED <<store, profiles, gone, evicted, faults>>
    PROVE  Recorded'
<1>1. CASE UNCHANGED handler
  BY <1>1, RestsRecorded
<1>2. ASSUME NEW h, setHandler(n, s, h), h.pc = "stored" => h.env \in store[n]
      PROVE  Recorded'
  <2>1. Becomes(n, s, h)
    BY <1>2, SetHandler DEF IInv
  <2>2. handler[n][s].pc # "stored"
    BY DEF Idle
  <2> QED BY <1>2, <2>1, <2>2, MovesRecorded
<1>3. CASE putStat(n, s, e)
  <2>1. CASE setHandler(n, s, [pc |-> "put", env |-> e])
    BY <2>1, <1>2
  <2>2. CASE e \in store[n] /\ setHandler(n, s, [pc |-> "stored", env |-> e])
    BY <2>2, <1>2
  <2> QED BY <1>1, <1>3, <2>1, <2>2 DEF putStat
<1>4. CASE setHandler(n, s, [pc |-> "delete", env |-> e])
  BY <1>4, <1>2
<1> QED BY <1>1, <1>3, <1>4 DEF dispatch

\* Publish: the entry that recordProfile replaces is older, or was removed,
\* and then it is what outdoes the profiles it outdid.
LEMMA PublishRecorded ==
    ASSUME IInv, TInv, Clock, Recorded, NEW n \in Nodes, NEW s \in Sources(n), Publish(n, s)
    PROVE  Recorded'
<1> DEFINE e == handler[n][s].env
<1>1. /\ handler[n][s].pc = "stored" /\ recordProfile(n, e) /\ setHandler(n, s, Idle)
      /\ UNCHANGED <<store, gone, evicted, submitted, stale, faults>>
  BY DEF Publish
<1>2. e \in submitted /\ e \in Envs
  BY <1>1 DEF IInv, WorkKnown, TInv, TSets
<1>3. Becomes(n, s, Idle)
  BY <1>1, SetHandler DEF IInv
<1>4. /\ TProfiles'
      /\ \A m \in Nodes : \A a \in Authors :
           \/ profiles'[m][a] = profiles[m][a]
           \/ m = n /\ a = e.sender /\ e.type = "profile" /\ profiles'[m][a] = e
  BY <1>1, <1>2, RecordTypes
<1>5. handler[n][s].env = e
  OBVIOUS
<1> HIDE DEF e
<1> SUFFICES ASSUME NEW m \in Nodes, Uncrashed(m)' PROVE RecordedAt(m)'
  BY DEF Recorded
<1>6. RecordedAt(m)
  BY <1>1, CrashStays DEF Recorded
<1>7. \A f : Known(m, f) => Known(m, f)'
  BY <1>1, RemovedStays DEF Known
<1>8. \A x : Publishing(m, x) /\ (m = n => x # e) => Publishing(m, x)'
  BY <1>3, <1>5 DEF Publishing, Becomes
<1>9. \A t \in Sources(m) : handler'[m][t].pc = "stored" => handler'[m][t] = handler[m][t]
  BY <1>3 DEF Becomes, Idle
<1>10. \A t \in Sources(m) : \A x :
         handler'[m][t].pc = "stored" /\ handler'[m][t].env = x => Known(m, x)'
  BY <1>6, <1>7, <1>9 DEF RecordedAt
<1>11. m = n => Known(m, e)
  BY <1>1, <1>5, <1>6 DEF RecordedAt
<1>12. \A a \in Authors : \A f :
         profiles'[m][a] = f /\ f # None => Profile(f, a) /\ Known(m, f)'
  <2> SUFFICES ASSUME NEW a \in Authors, NEW f, profiles'[m][a] = f, f # None
               PROVE  Profile(f, a) /\ Known(m, f)'
    OBVIOUS
  <2>1. CASE profiles'[m][a] = profiles[m][a]
    BY <2>1, <1>6, <1>7 DEF RecordedAt
  <2>2. CASE m = n /\ a = e.sender /\ e.type = "profile" /\ profiles'[m][a] = e
    BY <2>2, <1>7, <1>11 DEF Profile
  <2> QED BY <2>1, <2>2, <1>4
<1>13. ASSUME NEW a \in Authors, NEW x \in store[m], Profile(x, a)
       PROVE  Outdone(m, a, x)' \/ Publishing(m, x)'
  <2> DEFINE cur == profiles[m][a]
  <2>1. x \in Envs /\ x.ts \in Nat /\ e.ts \in Nat /\ e # None
    BY <1>2, EnvAssumption DEF TInv, TStore, TSets
  <2>2. ASSUME NEW f \in submitted, Profile(f, a), x.ts <= f.ts, Removed(m, f)
        PROVE  Outdone(m, a, x)'
    <3>1. f \in submitted' /\ Removed(m, f)'
      BY <2>2, <1>1, RemovedStays
    <3> QED BY <2>2, <3>1 DEF Outdone, Profile
  <2>3. CASE profiles'[m][a] = cur /\ cur # None /\ x.ts <= cur.ts
    BY <2>3 DEF Outdone
  <2>4. CASE profiles'[m][a] = e /\ x.ts <= e.ts
    BY <2>1, <2>4 DEF Outdone
  <2>5. CASE m = n /\ x = e
    <3>1. e.type = "profile" /\ e.sender = a
      BY <2>5, <1>13 DEF Profile
    <3>2. CASE cur # None /\ cur \in store[n] /\ cur.ts >= e.ts
      <4>1. profiles' = profiles
        BY <3>1, <3>2, <2>5, <1>1 DEF recordProfile
      <4>2. cur \in Envs
        BY <3>2, <2>5 DEF TInv, TStore, TSets
      <4>3. cur.ts \in Nat
        BY <4>2, EnvAssumption
      <4> QED BY <4>1, <4>3, <3>2, <2>1, <2>3, <2>5
    <3>3. CASE ~(cur # None /\ cur \in store[n] /\ cur.ts >= e.ts)
      <4>1. profiles' = [profiles EXCEPT ![n][a] = e]
        BY <3>1, <3>3, <2>5, <1>1 DEF recordProfile
      <4>2. profiles'[m][a] = e
        BY <4>1, <2>5 DEF TInv, TProfiles
      <4> QED BY <4>2, <2>1, <2>4, <2>5
    <3> QED BY <3>2, <3>3
  <2>6. CASE (m = n => x # e) /\ Publishing(m, x)
    BY <2>6, <1>8
  <2>7. CASE (m = n => x # e) /\ Outdone(m, a, x)
    <3>1. CASE cur # None /\ x.ts <= cur.ts
      <4>1. CASE profiles'[m][a] = cur
        BY <4>1, <3>1, <2>3
      <4>2. CASE profiles'[m][a] # cur
        <5>1. m = n /\ a = e.sender /\ e.type = "profile" /\ profiles'[m][a] = e
          BY <4>2, <1>4
        <5>2. Profile(cur, a) /\ Known(m, cur)
          BY <3>1, <1>6 DEF RecordedAt
        <5>3. cur \in submitted /\ cur \in Envs
          BY <3>1 DEF TInv, TProfiles, TSets
        <5>4. cur.ts \in Nat
          BY <5>3, EnvAssumption
        <5>5. ~(cur # None /\ cur \in store[n] /\ cur.ts >= e.ts)
          BY <5>1, <4>2, <1>1 DEF recordProfile
        <5>6. CASE cur \notin store[m]
          <6>1. Removed(m, cur)
            BY <5>2, <5>6 DEF Known
          <6> QED BY <6>1, <5>2, <5>3, <3>1, <2>2
        <5>7. CASE ~(cur.ts >= e.ts)
          <6>1. x.ts <= e.ts
            BY <5>4, <5>7, <3>1, <2>1
          <6> QED BY <6>1, <5>1, <2>4
        <5> QED BY <5>1, <5>5, <5>6, <5>7, <3>1
      <4> QED BY <4>1, <4>2
    <3>2. CASE \E f \in submitted : Profile(f, a) /\ x.ts <= f.ts /\ Removed(m, f)
      BY <3>2, <2>2
    <3>3. CASE cur = None /\ \E f \in submitted :
                 Profile(f, a) /\ x.ts <= f.ts /\ <<m, f>> \in evicted
      <4>1. PICK f \in submitted : Profile(f, a) /\ x.ts <= f.ts /\ <<m, f>> \in evicted
        BY <3>3
      <4>2. CASE profiles'[m][a] = cur
        BY <4>1, <4>2, <3>3, <1>1 DEF Outdone, Profile
      <4>3. CASE profiles'[m][a] # cur
        <5>1. m = n /\ a = e.sender /\ e.type = "profile" /\ profiles'[m][a] = e
          BY <4>3, <1>4
        <5>2. <<m, f>>[1] = n /\ <<m, f>>[2] = f /\ f.sender = a
          BY <4>1, <5>1 DEF Profile
        <5>3. handler[n][s].pc # "idle" /\ Profile(handler[n][s].env, f.sender)
          BY <1>1, <1>5, <5>1, <5>2 DEF Profile
        <5>4. e.ts > f.ts
          BY <4>1, <5>2, <5>3, <1>5 DEF Clock
        <5>5. f.ts \in Nat
          BY EnvAssumption DEF TInv, TSets
        <5>6. x.ts <= e.ts
          BY <2>1, <4>1, <5>4, <5>5
        <5> QED BY <5>1, <5>6, <2>4
      <4> QED BY <4>2, <4>3
    <3> QED BY <3>1, <3>2, <3>3, <2>7 DEF Outdone
  <2>8. Outdone(m, a, x) \/ Publishing(m, x)
    BY <1>6, <1>13 DEF RecordedAt
  <2> QED BY <2>5, <2>6, <2>7, <2>8
<1>14. \A a \in Authors : \A x \in store'[m] :
         Profile(x, a) => Outdone(m, a, x)' \/ Publishing(m, x)'
  BY <1>1, <1>13
<1> QED BY <1>10, <1>12, <1>14, RecordedNow

\* Prune: what it removes is removed, and an entry it forgets is what outdoes
\* the profiles that the entry outdid.
LEMMA PruneRecorded ==
    ASSUME IInv, TInv, Recorded, NEW n \in Nodes, Prune(n)
    PROVE  Recorded'
<1>1. PICK old \in SUBSET (store[n] \cap stale), quiet \in SUBSET inactive(n) :
        /\ store' = [store EXCEPT ![n] = @ \ old]
        /\ gone' = gone \cup {<<n, e>> : e \in old}
        /\ profiles' = [profiles EXCEPT ![n] =
                          [a \in Authors |-> IF a \in quiet THEN None ELSE @[a]]]
        /\ evicted' = evicted \cup {<<n, profiles[n][a]>> : a \in quiet}
        /\ UNCHANGED <<handler, submitted, faults>>
  BY DEF Prune, prunable
<1>2. \A m \in Nodes : store'[m] = IF m = n THEN store[m] \ old ELSE store[m]
  BY <1>1 DEF TInv, TStore
<1>3. \A m \in Nodes : \A a \in Authors :
        profiles'[m][a] = IF m = n /\ a \in quiet THEN None ELSE profiles[m][a]
  BY <1>1 DEF TInv, TProfiles
<1> SUFFICES ASSUME NEW m \in Nodes, Uncrashed(m)' PROVE RecordedAt(m)'
  BY DEF Recorded
<1>4. RecordedAt(m)
  BY <1>1, CrashStays DEF Recorded
<1>5. \A f : Removed(m, f) => Removed(m, f)'
  BY <1>1, RemovedStays
<1>6. ASSUME NEW f, Known(m, f) PROVE Known(m, f)'
  <2>1. CASE m = n /\ f \in old
    BY <1>1, <2>1 DEF Known, Removed
  <2> QED BY <1>2, <1>5, <1>6, <2>1 DEF Known
<1>7. \A a \in Authors : \A f :
        profiles'[m][a] = f /\ f # None => Profile(f, a) /\ Known(m, f)'
  BY <1>3, <1>4, <1>6 DEF RecordedAt
<1>8. \A s \in Sources(m) : \A e :
        handler'[m][s].pc = "stored" /\ handler'[m][s].env = e => Known(m, e)'
  BY <1>1, <1>4, <1>6 DEF RecordedAt
<1>9. ASSUME NEW a \in Authors, NEW e \in store'[m], Profile(e, a)
      PROVE  Outdone(m, a, e)' \/ Publishing(m, e)'
  <2>1. Outdone(m, a, e) \/ Publishing(m, e)
    BY <1>2, <1>4, <1>9 DEF RecordedAt
  <2>2. CASE Publishing(m, e)
    BY <1>1, <2>2 DEF Publishing
  <2>3. CASE profiles[m][a] # None /\ e.ts <= profiles[m][a].ts
    <3>1. CASE m = n /\ a \in quiet
      <4>1. profiles'[m][a] = None /\ <<m, profiles[m][a]>> \in evicted'
        BY <1>1, <1>3, <3>1
      <4>2. profiles[m][a] \in submitted' /\ Profile(profiles[m][a], a)
        BY <1>1, <2>3 DEF TInv, TProfiles
      <4> QED BY <2>3, <4>1, <4>2 DEF Outdone, Profile
    <3>2. CASE ~(m = n /\ a \in quiet)
      BY <1>3, <2>3, <3>2 DEF Outdone
    <3> QED BY <3>1, <3>2
  <2>4. CASE \E f \in submitted : Profile(f, a) /\ e.ts <= f.ts /\ Removed(m, f)
    <3>1. PICK f \in submitted : Profile(f, a) /\ e.ts <= f.ts /\ Removed(m, f)
      BY <2>4
    <3>2. f \in submitted' /\ Removed(m, f)'
      BY <1>1, <1>5, <3>1
    <3> QED BY <3>1, <3>2 DEF Outdone, Profile
  <2>5. CASE profiles[m][a] = None /\ \E f \in submitted :
               Profile(f, a) /\ e.ts <= f.ts /\ <<m, f>> \in evicted
    <3>1. PICK f \in submitted : Profile(f, a) /\ e.ts <= f.ts /\ <<m, f>> \in evicted
      BY <2>5
    <3>2. f \in submitted' /\ <<m, f>> \in evicted' /\ profiles'[m][a] = None
      BY <1>1, <1>3, <2>5, <3>1
    <3> QED BY <3>1, <3>2 DEF Outdone, Profile
  <2> QED BY <2>1, <2>2, <2>3, <2>4, <2>5 DEF Outdone
<1> QED BY <1>7, <1>8, <1>9, RecordedNow

\* Every step keeps it.
LEMMA RecordedStep == IInv /\ TInv /\ Clock /\ Recorded /\ [Next]_vars => Recorded'
<1> SUFFICES ASSUME IInv, TInv, Clock, Recorded, [Next]_vars PROVE Recorded'
  OBVIOUS
<1>1. ASSUME NEW n \in Nodes, NEW e \in Envs, HandleSend(n, e) PROVE Recorded'
  <2>1. Client \in Sources(n)
    BY DEF Sources
  <2>2. /\ handler[n][Client] = Idle /\ dispatch(n, Client, e, wire)
        /\ submitted \subseteq submitted' /\ UNCHANGED <<store, profiles, gone, evicted, faults>>
    BY <1>1 DEF HandleSend
  <2> QED BY <2>1, <2>2, DispatchRecorded
<1>2. ASSUME NEW n \in Nodes, NEW p \in Links[n], NEW e \in Envs, Receive(n, p, e)
      PROVE  Recorded'
  <2>1. p \in Sources(n)
    BY DEF Sources
  <2>2. /\ handler[n][p] = Idle
        /\ dispatch(n, p, e, wire \ {<<p, n, e>>}) \/ UNCHANGED handler
        /\ UNCHANGED <<store, profiles, gone, evicted, submitted, faults>>
    BY <1>2 DEF Receive
  <2>3. CASE dispatch(n, p, e, wire \ {<<p, n, e>>})
    BY <2>1, <2>2, <2>3, DispatchRecorded
  <2>4. CASE UNCHANGED handler
    BY <2>2, <2>4, RestsRecorded
  <2> QED BY <2>2, <2>3, <2>4
<1>3. ASSUME NEW n \in Nodes, NEW s \in Sources(n), Rename(n, s) PROVE Recorded'
  <2> DEFINE e == handler[n][s].env
  <2>1. /\ handler[n][s].pc = "put" /\ store' = [store EXCEPT ![n] = store[n] \cup {e}]
        /\ setHandler(n, s, [pc |-> "stored", env |-> e])
        /\ UNCHANGED <<profiles, gone, evicted, submitted, faults>>
    BY <1>3 DEF Rename
  <2> HIDE DEF e
  <2>2. Becomes(n, s, [pc |-> "stored", env |-> e])
    BY <2>1, SetHandler DEF IInv
  <2>3. \A m \in Nodes : store'[m] = IF m = n THEN store[m] \cup {e} ELSE store[m]
    BY <2>1 DEF TInv, TStore
  <2>4. \A m \in Nodes : \A f \in store[m] \ store'[m] : Removed(m, f)'
    BY <2>3
  <2>5. \A m \in Nodes : \A x \in store'[m] : x \in store[m] \/ (m = n /\ e = x)
    BY <2>3
  <2>6. e \in store'[n] /\ handler[n][s].pc # "stored"
    BY <2>1, <2>3
  <2>7. [pc |-> "stored", env |-> e].pc = "stored" /\ [pc |-> "stored", env |-> e].env = e
    OBVIOUS
  <2> QED BY <2>1, <2>2, <2>4, <2>5, <2>6, <2>7, MovesRecorded
<1>4. ASSUME NEW n \in Nodes, NEW s \in Sources(n), Publish(n, s) PROVE Recorded'
  BY <1>4, PublishRecorded
<1>5. ASSUME NEW n \in Nodes, NEW s \in Sources(n), Delete(n, s) PROVE Recorded'
  <2> DEFINE e == handler[n][s].env
  <2>1. /\ handler[n][s].pc = "delete" /\ store' = [store EXCEPT ![n] = store[n] \ {e.target}]
        /\ setHandler(n, s, Idle)
        /\ UNCHANGED <<profiles, gone, evicted, submitted, faults>>
    BY <1>5 DEF Delete
  <2>2. e \in submitted /\ asks(e, e.target)
    BY <2>1 DEF IInv, WorkKnown, DeletesGranted
  <2> HIDE DEF e
  <2>3. Becomes(n, s, Idle) /\ Idle.pc # "stored" /\ handler[n][s].pc # "stored"
    BY <2>1, SetHandler DEF IInv, Idle
  <2>4. \A m \in Nodes : store'[m] = IF m = n THEN store[m] \ {e.target} ELSE store[m]
    BY <2>1 DEF TInv, TStore
  <2>5. ASSUME NEW m \in Nodes, NEW f \in store[m] \ store'[m] PROVE Removed(m, f)'
    <3>1. f = e.target
      BY <2>4
    <3> QED BY <3>1, <2>1, <2>2 DEF Removed, asks
  <2>6. \A m \in Nodes : \A x \in store'[m] : x \in store[m]
    BY <2>4
  <2> QED BY <2>1, <2>3, <2>5, <2>6, MovesRecorded
<1>6. ASSUME NEW n \in Nodes, Prune(n) PROVE Recorded'
  BY <1>6, PruneRecorded
<1>7. ASSUME NEW n \in Nodes, NEW s \in Sources(n), PruneTemp(n, s) PROVE Recorded'
  <2>1. /\ handler[n][s].pc = "put" /\ setHandler(n, s, Idle) /\ faults' \subseteq faults
        /\ UNCHANGED <<store, profiles, gone, evicted, submitted>>
    BY <1>7 DEF PruneTemp, spend
  <2>2. Becomes(n, s, Idle) /\ Idle.pc # "stored" /\ handler[n][s].pc # "stored"
    BY <2>1, SetHandler DEF IInv, Idle
  <2> QED BY <2>1, <2>2, MovesRecorded
<1>8. ASSUME NEW n \in Nodes, Lose(n) PROVE Recorded'
  <2>1. faults' \subseteq faults /\ UNCHANGED <<store, profiles, handler, gone, evicted, submitted>>
    BY <1>8 DEF Lose, spend
  <2> QED BY <2>1, RestsRecorded
<1>9. ASSUME NEW n \in Nodes, Crash(n) PROVE Recorded'
  <2>1. /\ <<n, "crash">> \in faults /\ faults' = faults \ {<<n, "crash">>}
        /\ UNCHANGED <<store, gone, evicted, submitted>>
    BY <1>9 DEF Crash, spend
  <2>2. \A m \in Nodes : m # n => profiles'[m] = profiles[m] /\ handler'[m] = handler[m]
    BY <1>9 DEF Crash, IInv, Shape, TInv, TProfiles
  <2> SUFFICES ASSUME NEW m \in Nodes, Uncrashed(m)' PROVE RecordedAt(m)'
    BY DEF Recorded
  <2>3. m # n
    BY <2>1 DEF Uncrashed, TInv, TSets
  <2>4. RecordedAt(m)
    BY <2>1, CrashStays DEF Recorded
  <2>5. \A e : Publishing(m, e) <=> Publishing(m, e)'
    BY <2>2, <2>3 DEF Publishing
  <2>6. ASSUME NEW e, Publishing(m, e)' PROVE Publishing(m, e) \/ e \in store'[m]
    BY <2>5, <2>6
  <2> QED BY <2>1, <2>2, <2>3, <2>4, <2>5, <2>6, RecordedStays
<1>10. ASSUME NEW e \in Envs, Age(e) PROVE Recorded'
  <2>1. UNCHANGED <<store, profiles, handler, gone, evicted, submitted, faults>>
    BY <1>10 DEF Age
  <2> QED BY <2>1, RestsRecorded
<1>11. CASE UNCHANGED vars
  <2>1. UNCHANGED <<store, profiles, handler, gone, evicted, submitted, faults>>
    BY <1>11 DEF vars
  <2> QED BY <2>1, RestsRecorded
<1> QED BY <1>1, <1>2, <1>3, <1>4, <1>5, <1>6, <1>7, <1>8, <1>9, <1>10, <1>11 DEF Next, Work

LEMMA InitRecorded == Init => Recorded
  BY DEF Init, Recorded, RecordedAt, Idle

\* In a daemon that did not restart, and whose handlers are idle, no stored
\* profile is newer than the one recorded for its author and than every
\* profile of that author that was removed: recordProfile never lets an older
\* profile overtake a newer one that is still there, and after an entry was
\* dropped the next one is newer than all that it stood for.
THEOREM NewestHolds == Spec => []NewestKnown
<1>1. Recorded => NewestKnown
  <2> SUFFICES ASSUME Recorded, NEW n \in Nodes, NEW a \in Authors, Uncrashed(n),
                      \A s \in Sources(n) : handler[n][s] = Idle,
                      NEW e \in store[n], Profile(e, a)
               PROVE  Outdone(n, a, e)
    BY DEF NewestKnown
  <2>1. ~Publishing(n, e)
    BY DEF Publishing, Idle
  <2> QED BY <2>1 DEF Recorded, RecordedAt
<1> QED BY <1>1, InvHolds, TypesHold, ClockHolds, InitRecorded, RecordedStep, PTL DEF Spec

-----------------------------------------------------------------------------
(* What is relayed is stored.                                              *)

\* RelayedIsStored, and the same of what a handler is about to record.
Stored ==
    /\ \A n \in Nodes : \A s \in Sources(n) :
        handler[n][s].pc = "stored" => Known(n, handler[n][s].env)
    /\ RelayedIsStored

\* A step keeps it that removes what it takes from a store, gives a handler
\* to record, puts on the wire and records only what is stored.
LEMMA StoredKeeps ==
    ASSUME Stored, gone \subseteq gone', submitted \subseteq submitted',
           \A n : \A f : f \in store[n] => f \in store'[n] \/ Removed(n, f)',
           \A n \in Nodes : \A s \in Sources(n) : \A e :
               handler'[n][s].pc = "stored" /\ handler'[n][s].env = e =>
                   (handler[n][s].pc = "stored" /\ handler[n][s].env = e) \/ Known(n, e)',
           \A m \in wire' : m[3].type \in Content => m \in wire \/ Known(m[1], m[3])',
           \A n \in Nodes, a \in Authors : \A e :
               profiles'[n][a] = e /\ e # None => profiles[n][a] = e \/ Known(n, e)'
    PROVE  Stored'
<1>1. ASSUME NEW n, NEW f, Known(n, f) PROVE Known(n, f)'
  BY <1>1, RemovedStays DEF Known
<1>2. ASSUME NEW n \in Nodes, NEW s \in Sources(n), NEW e, handler'[n][s].pc = "stored",
             handler'[n][s].env = e
      PROVE  Known(n, e)'
  BY <1>1, <1>2 DEF Stored
<1>3. ASSUME NEW m \in wire', m[3].type \in Content PROVE Known(m[1], m[3])'
  BY <1>1, <1>3 DEF Stored, RelayedIsStored
<1>4. ASSUME NEW n \in Nodes, NEW a \in Authors, NEW e, profiles'[n][a] = e, e # None
      PROVE  Known(n, e)'
  BY <1>1, <1>4 DEF Stored, RelayedIsStored
<1>5. \A n \in Nodes : \A s \in Sources(n) : handler'[n][s].pc = "stored" =>
        \/ handler'[n][s].env \in store'[n] \/ <<n, handler'[n][s].env>> \in gone'
        \/ \E d \in submitted' : asks(d, handler'[n][s].env)
  BY <1>2 DEF Known, Removed, asks
<1>6. \A n \in Nodes, a \in Authors : profiles'[n][a] # None =>
        \/ profiles'[n][a] \in store'[n] \/ <<n, profiles'[n][a]>> \in gone'
        \/ \E d \in submitted' : asks(d, profiles'[n][a])
  BY <1>4 DEF Known, Removed, asks
<1> QED BY <1>3, <1>5, <1>6 DEF Stored, RelayedIsStored, Known, Removed, asks, Sources

LEMMA DispatchStored ==
    ASSUME IInv, Stored, NEW n \in Nodes, NEW s \in Sources(n), NEW e, NEW w \in SUBSET wire,
           dispatch(n, s, e, w), submitted \subseteq submitted',
           UNCHANGED <<store, profiles, gone>>
    PROVE  Stored'
<1>1. \A m \in wire' : m[3].type \in Content => m \in wire
  <2>1. CASE wire' = w
    BY <2>1
  <2>2. CASE e.type = "ack" /\ relay(n, e, s, w)
    BY <2>2, RelayOnly DEF Content
  <2> QED BY <2>1, <2>2 DEF dispatch
<1>2. ASSUME NEW m \in Nodes, NEW t \in Sources(m), NEW d, handler'[m][t].pc = "stored",
             handler'[m][t].env = d
      PROVE  (handler[m][t].pc = "stored" /\ handler[m][t].env = d) \/ Known(m, d)'
  <2>1. CASE UNCHANGED handler
    BY <1>2, <2>1
  <2>2. ASSUME NEW k \in {"put", "delete"}, setHandler(n, s, [pc |-> k, env |-> e])
        PROVE  handler[m][t].pc = "stored" /\ handler[m][t].env = d
    <3>1. Becomes(n, s, [pc |-> k, env |-> e])
      BY <2>2, SetHandler DEF IInv
    <3> QED BY <1>2, <3>1 DEF Becomes
  <2>3. CASE e \in store[n] /\ setHandler(n, s, [pc |-> "stored", env |-> e])
    <3>1. Becomes(n, s, [pc |-> "stored", env |-> e])
      BY <2>3, SetHandler DEF IInv
    <3> QED BY <1>2, <2>3, <3>1 DEF Becomes, Known
  <2> QED BY <2>1, <2>2, <2>3 DEF dispatch, putStat
<1> QED BY <1>1, <1>2, StoredKeeps

LEMMA InitStored == Init => Stored
  BY DEF Init, Stored, RelayedIsStored, Idle

\* Every step keeps it: the rename comes before everything else.
LEMMA StoredStep == IInv /\ TInv /\ Stored /\ [Next]_vars => Stored'
<1> SUFFICES ASSUME IInv, TInv, Stored, [Next]_vars PROVE Stored'
  OBVIOUS
<1>0. Idle.pc # "stored"
  BY DEF Idle
<1>1. ASSUME NEW n \in Nodes, NEW e \in Envs, HandleSend(n, e) PROVE Stored'
  <2>1. Client \in Sources(n)
    BY DEF Sources
  <2> QED BY <1>1, <2>1, DispatchStored DEF HandleSend
<1>2. ASSUME NEW n \in Nodes, NEW p \in Links[n], NEW e \in Envs, Receive(n, p, e)
      PROVE  Stored'
  <2>1. p \in Sources(n) /\ wire \ {<<p, n, e>>} \in SUBSET wire
    BY DEF Sources
  <2>2. CASE dispatch(n, p, e, wire \ {<<p, n, e>>})
    BY <1>2, <2>1, <2>2, DispatchStored DEF Receive
  <2>3. CASE wire' \subseteq wire /\ UNCHANGED handler
    BY <1>2, <2>3, StoredKeeps DEF Receive
  <2> QED BY <1>2, <2>2, <2>3 DEF Receive
<1>3. ASSUME NEW n \in Nodes, NEW s \in Sources(n), Rename(n, s) PROVE Stored'
  <2> DEFINE k == [pc |-> "stored", env |-> handler[n][s].env]
  <2>1. /\ setHandler(n, s, k) /\ store' = [store EXCEPT ![n] = @ \cup {handler[n][s].env}]
        /\ UNCHANGED <<profiles, wire, gone, submitted>>
    BY <1>3 DEF Rename
  <2>2. Becomes(n, s, k) /\ k.env = handler[n][s].env
    BY <2>1, SetHandler DEF IInv
  <2>3. k.env \in store'[n] /\ \A m : store[m] \subseteq store'[m]
    BY <2>1, <2>2 DEF TInv, TStore
  <2> HIDE DEF k
  <2>4. \A m \in Nodes : \A t \in Sources(m) : \A e :
           handler'[m][t].pc = "stored" /\ handler'[m][t].env = e =>
               (handler[m][t].pc = "stored" /\ handler[m][t].env = e) \/ Known(m, e)'
    BY <2>2, <2>3 DEF Becomes, Known
  <2> QED BY <2>1, <2>3, <2>4, StoredKeeps
<1>4. ASSUME NEW n \in Nodes, NEW s \in Sources(n), Publish(n, s) PROVE Stored'
  <2>0. PICK e : e = handler[n][s].env
    OBVIOUS
  <2>1. /\ handler[n][s].pc = "stored" /\ recordProfile(n, e) /\ relay(n, e, s, wire)
        /\ setHandler(n, s, Idle) /\ UNCHANGED <<store, gone, submitted>>
    BY <1>4, <2>0 DEF Publish
  <2>2. Known(n, e)'
    BY <2>0, <2>1 DEF Stored, Known, Removed, asks
  <2>3. e \in submitted
    BY <2>0, <2>1 DEF IInv, WorkKnown
  <2>4. Becomes(n, s, Idle)
    BY <2>1, SetHandler DEF IInv
  <2>5. \A m \in Nodes, a \in Authors : profiles'[m][a] = profiles[m][a] \/ (m = n /\ profiles'[m][a] = e)
    BY <2>1, <2>3, RecordTypes
  <2>6. ASSUME NEW m \in wire', m \notin wire PROVE Known(m[1], m[3])'
    <3>1. PICK p \in Links[n] : m = <<n, p, e>>
      BY <2>1, <2>6 DEF relay
    <3>2. m[1] = n /\ m[3] = e
      BY <3>1
    <3> QED BY <2>2, <3>2
  <2>7. \A m \in Nodes : \A t \in Sources(m) : handler'[m][t].pc = "stored" => handler'[m][t] = handler[m][t]
    BY <1>0, <2>4 DEF Becomes
  <2> QED BY <2>1, <2>2, <2>5, <2>6, <2>7, StoredKeeps
<1>5. ASSUME NEW n \in Nodes, NEW s \in Sources(n), Delete(n, s) PROVE Stored'
  <2> DEFINE e == handler[n][s].env
  <2>1. /\ handler[n][s].pc = "delete" /\ relay(n, e, s, wire) /\ setHandler(n, s, Idle)
        /\ store' = [store EXCEPT ![n] = @ \ {e.target}]
        /\ UNCHANGED <<profiles, gone, submitted>>
    BY <1>5 DEF Delete
  <2>2. e \in submitted /\ asks(e, e.target)
    BY <2>1 DEF IInv, WorkKnown, DeletesGranted
  <2>3. Becomes(n, s, Idle)
    BY <2>1, SetHandler DEF IInv
  <2> HIDE DEF e
  <2>4. ASSUME NEW m, NEW f, f \in store[m] PROVE f \in store'[m] \/ Removed(m, f)'
    BY <2>1, <2>2, <2>4 DEF TInv, TStore, Removed, asks
  <2>5. \A m \in wire' : m[3].type \in Content => m \in wire
    BY <2>1, <2>2, RelayOnly DEF asks, Content
  <2>6. \A m \in Nodes : \A t \in Sources(m) : handler'[m][t].pc = "stored" => handler'[m][t] = handler[m][t]
    BY <1>0, <2>3 DEF Becomes
  <2> QED BY <2>1, <2>4, <2>5, <2>6, StoredKeeps
<1>6. ASSUME NEW n \in Nodes, NEW s \in Sources(n), PruneTemp(n, s) PROVE Stored'
  <2>1. setHandler(n, s, Idle) /\ UNCHANGED <<store, profiles, wire, gone, submitted>>
    BY <1>6 DEF PruneTemp
  <2>2. Becomes(n, s, Idle)
    BY <2>1, SetHandler DEF IInv
  <2>3. \A m \in Nodes : \A t \in Sources(m) : handler'[m][t].pc = "stored" => handler'[m][t] = handler[m][t]
    BY <1>0, <2>2 DEF Becomes
  <2> QED BY <2>1, <2>3, StoredKeeps
<1>7. ASSUME NEW n \in Nodes, Prune(n) PROVE Stored'
  <2>1. PICK old \in SUBSET (store[n] \cap stale), quiet \in SUBSET inactive(n) :
          /\ store' = [store EXCEPT ![n] = @ \ old]
          /\ gone' = gone \cup {<<n, e>> : e \in old}
          /\ profiles' = [profiles EXCEPT ![n] =
                            [a \in Authors |-> IF a \in quiet THEN None ELSE @[a]]]
          /\ UNCHANGED <<handler, wire, submitted>>
    BY <1>7 DEF Prune, prunable
  <2>2. ASSUME NEW m, NEW f, f \in store[m] PROVE f \in store'[m] \/ Removed(m, f)'
    BY <2>1, <2>2 DEF TInv, TStore, Removed
  <2>3. \A m \in Nodes, a \in Authors : profiles'[m][a] \in {None, profiles[m][a]}
    BY <2>1 DEF TInv, TProfiles
  <2> QED BY <2>1, <2>2, <2>3, StoredKeeps
<1>8. ASSUME NEW n \in Nodes, Lose(n) PROVE Stored'
  BY <1>8, StoredKeeps DEF Lose
<1>9. ASSUME NEW n \in Nodes, Crash(n) PROVE Stored'
  <2>1. /\ handler' = [handler EXCEPT ![n] = [s \in Sources(n) |-> Idle]]
        /\ profiles' = [profiles EXCEPT ![n] = [a \in Authors |-> None]]
        /\ wire' \subseteq wire /\ UNCHANGED <<store, gone, submitted>>
    BY <1>9 DEF Crash
  <2>2. \A m \in Nodes : \A t \in Sources(m) : handler'[m][t].pc = "stored" => handler'[m][t] = handler[m][t]
    BY <1>0, <2>1 DEF IInv, Shape
  <2>3. \A m \in Nodes, a \in Authors : profiles'[m][a] \in {None, profiles[m][a]}
    BY <2>1 DEF TInv, TProfiles
  <2> QED BY <2>1, <2>2, <2>3, StoredKeeps
<1>10. ASSUME NEW e \in Envs, Age(e) PROVE Stored'
  BY <1>10, StoredKeeps DEF Age
<1>11. CASE UNCHANGED vars
  BY <1>11, StoredKeeps DEF vars
<1> QED BY <1>1, <1>2, <1>3, <1>4, <1>5, <1>6, <1>7, <1>8, <1>9, <1>10, <1>11 DEF Next, Work

\* Whatever a daemon relays or records it has stored, or has removed since:
\* a Put that fails under Prune, or a stop between the steps of a handler,
\* never lets an envelope out that the node does not hold.
THEOREM RelayedStored == Spec => []RelayedIsStored
<1>1. Stored => RelayedIsStored
  BY DEF Stored
<1> QED BY <1>1, InvHolds, TypesHold, InitStored, StoredStep, PTL DEF Spec
=============================================================================
