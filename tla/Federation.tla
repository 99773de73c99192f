----------------------------- MODULE Federation -----------------------------
(***************************************************************************)
(* How two Gandr daemons keep a federation session with each other: the    *)
(* per-peer connections of mux.go (who owns them, epochs, Accept), the     *)
(* handshake of federation/handshake.go, the peer table, and the           *)
(* goroutines of daemon.go that run them (seedLoop, HandleConnect,         *)
(* acceptLoop, the session pumps).                                         *)
(*                                                                         *)
(* A call of Conn.Send is one step with the outcomes that MuxConn allows:  *)
(* delivered and acknowledged, delivered without the caller learning it,   *)
(* or lost.  Every nonce and session key is named after the attempt that   *)
(* made it, and a name nothing refers to any more is used again.           *)
(***************************************************************************)
EXTENDS Integers, Sequences, FiniteSets

CONSTANTS
    Client, Server,   \* the two nodes
    Seeders,          \* the nodes that have the other one as a seed
    Epochs,           \* the lifetime marks a mux may draw (255 in the code)
    AcceptBacklog,    \* acceptBacklog
    InboxSize,        \* inboxSize
    MaxConns,         \* bound: connections a node holds at one time
    MaxIds,           \* bound: handshake attempts that leave traces at one time
    Talkers,          \* the nodes that have envelopes to relay
    Disturbances      \* bound: pairs <<node, kind>>, each of which may happen
                      \* once; the kinds are "restart", "collide" (restart with
                      \* the epoch it had), "connect" (HandleConnect), "stray"
                      \* (a late or repeated frame arrives) and "loss" (a send
                      \* fails or a timer fires early)

Node == {Client, Server}
ConnIds == 1..MaxConns
Peer(n) == IF n = Client THEN Server ELSE Client

ASSUME NodeAssumption == Client # Server /\ Seeders \subseteq Node
ASSUME DisturbanceAssumption ==
    /\ Talkers \subseteq Node
    /\ Disturbances \subseteq Node \X {"restart", "collide", "connect", "stray", "loss"}
ASSUME EpochAssumption == 0 \notin Epochs /\ Epochs # {}
ASSUME BoundAssumption == {AcceptBacklog, InboxSize, MaxConns, MaxIds} \subseteq Nat

VARIABLES
    epoch,    \* the node's mux.epoch
    mux,      \* the node's mux: connections, the one in mux.peers, accepts
    tasks,    \* the node's goroutines
    table,    \* the session in the peer table, or NoSession
    budget    \* disturbances left

vars == <<epoch, mux, tasks, table, budget>>

NoId == <<>>
NoSession == <<>>

\* A handshake message or session frame; a and b name the initiator's and the
\* responder's attempt (nonce and ephemeral key), role the sending end.
Msg(type, a, b, role) == [type |-> type, a |-> a, b |-> b, role |-> role]

\* A goroutine: kind "seed", "user", "resp" or "pump".  Its pc is the handshake
\* message it sends or waits for, or
\*   "adding"   inside Table.Add, which holds the table's lock and is closing
\*              the session it replaces,
\*   "closing"  the handshake failed, the goroutine is inside Close.
Task(kind, pc, c, a, b) == [kind |-> kind, pc |-> pc, conn |-> c, a |-> a, b |-> b]
Role(t) == IF t.kind \in {"seed", "user"} THEN "init" ELSE "resp"
Session(c, a, b, role) == [conn |-> c, a |-> a, b |-> b, role |-> role]
Pump(s) == [kind |-> "pump", pc |-> "recv", conn |-> s.conn, a |-> s.a, b |-> s.b, role |-> s.role]

EmptyMux == [conns |-> <<>>, cur |-> 0, accepts |-> <<>>]

Init ==
    /\ epoch \in [Node -> Epochs]
    /\ mux = [n \in Node |-> EmptyMux]
    /\ tasks = [n \in Node |-> {}]
    /\ table = [n \in Node |-> NoSession]
    /\ budget = Disturbances

-----------------------------------------------------------------------------
(* The connection table of a mux, as functions of its state.               *)

conn(mx, c) == mx.conns[c]
IsOpen(mx, c) == mx.conns[c].open

\* mux.conn: the connection in mux.peers, or a new one.
FreeConns(mx) == ConnIds \ DOMAIN mx.conns
newConn(mx, e) ==
    LET c == CHOOSE x \in FreeConns(mx) : \A y \in FreeConns(mx) : x <= y
    IN  [mx EXCEPT !.cur = c,
                   !.conns = [x \in DOMAIN mx.conns \cup {c} |->
                                 IF x = c THEN [open |-> TRUE, remote |-> e, inbox |-> <<>>]
                                 ELSE mx.conns[x]]]

\* muxConn.Close: first the channel is closed; then removeConn takes the
\* connection out of the map, under the mux's lock.  In between the readLoop
\* and Dial find a closed connection.  A second caller of Close waits for the
\* first (sync.Once), so whoever is inside may be said to remove it.
closeChannel(mx, c) == [mx EXCEPT !.conns[c].open = FALSE]
removeConn(mx, c) == [mx EXCEPT !.cur = IF @ = c THEN 0 ELSE @]

\* Mutant of surface: the backlog has no limit.
surfaceAlways(mx) == [mx EXCEPT !.accepts = Append(@, mx.cur)]

\* A new connection made by the readLoop surfaces to Accept, or nowhere when
\* the backlog is full.
surface(mx) ==
    IF Len(mx.accepts) < AcceptBacklog
    THEN [mx EXCEPT !.accepts = Append(@, mx.cur)]
    ELSE mx

\* Mutant of readFrame: the connection of the peer's previous lifetime is
\* replaced without being closed.
readFrameReplaces(mx, e) ==
    IF mx.cur = 0 \/ conn(mx, mx.cur).remote \notin {0, e}
    THEN surface(newConn(mx, e))
    ELSE [mx EXCEPT !.conns[mx.cur].remote = e]

\* readLoop, up to the switch on the frame type: find the connection, retire
\* it when the peer's epoch has changed, learn the epoch, surface a new one.
\* (Its own Close is one step: no frame is read meanwhile, and a Dial that
\* comes in between fails like one whose pong brings the new epoch.)
readFrame(mx, e) ==
    IF mx.cur = 0 THEN surface(newConn(mx, e))
    ELSE IF conn(mx, mx.cur).remote \notin {0, e}
         THEN surface(newConn(closeChannel(mx, mx.cur), e))
    ELSE [mx EXCEPT !.conns[mx.cur].remote = e]

\* ... and a data frame that completes a message: a full inbox takes nothing.
hasRoom(mx, e) ==
    LET r == readFrame(mx, e) IN Len(conn(r, r.cur).inbox) < InboxSize
readData(mx, e, m) ==
    LET r == readFrame(mx, e)
    IN  IF hasRoom(mx, e) THEN [r EXCEPT !.conns[r.cur].inbox = Append(@, m)] ELSE r

\* A closed connection that no goroutine reads and neither the map nor a queue
\* holds is garbage.
tidy(mx, ts) ==
    LET kept == {c \in DOMAIN mx.conns :
                    \/ mx.conns[c].open \/ c = mx.cur
                    \/ \E t \in ts : t.conn = c
                    \/ \E j \in 1..Len(mx.accepts) : mx.accepts[j] = c}
    IN  [mx EXCEPT !.conns = [c \in kept |-> mx.conns[c]]]

\* The next state of the two muxes and of node n's goroutines.
become(n, mine, theirs, ts) ==
    /\ tasks' = [tasks EXCEPT ![n] = ts]
    /\ mux' = [mux EXCEPT ![n] = tidy(mine, ts),
                          ![Peer(n)] = tidy(theirs, tasks[Peer(n)])]

\* Pay for a disturbance.
spend(n, what) == <<n, what>> \in budget /\ budget' = budget \ {<<n, what>>}

\* Names that some message, goroutine or table entry still refers to.
used(n) ==
    LET inboxes == UNION {{mux[x].conns[c].inbox : c \in DOMAIN mux[x].conns} : x \in Node}
        msgs == UNION {{q[j] : j \in 1..Len(q)} : q \in inboxes}
        recs == msgs \cup tasks[Client] \cup tasks[Server]
    IN  {r.a : r \in recs} \cup {r.b : r \in recs}

fresh(n) ==
    LET free == {i \in 1..MaxIds : <<n, i>> \notin used(n)}
    IN  <<n, CHOOSE i \in free : \A j \in free : i <= j>>
HasFresh(n) == \E i \in 1..MaxIds : <<n, i>> \notin used(n)

-----------------------------------------------------------------------------
(* Sending, receiving and giving up, for any goroutine of the handshake.   *)

inbox(n, t) == conn(mux[n], t.conn).inbox
take(n, t) == [mux[n] EXCEPT !.conns[t.conn].inbox = Tail(@)]

\* The caller of a failed handshake closes the connection and returns, at
\* once when another has closed it already.
fail(n, t, mine, theirs) ==
    become(n, closeChannel(mine, t.conn), theirs,
           (tasks[n] \ {t}) \cup
               (IF mine.cur = t.conn THEN {[t EXCEPT !.pc = "closing"]} ELSE {}))
FinishClose(n, t) ==
    /\ t.pc = "closing"
    /\ become(n, removeConn(mux[n], t.conn), mux[Peer(n)], tasks[n] \ {t})
    /\ UNCHANGED <<epoch, table, budget>>

\* What a message from n does to the peer, and the acknowledgement, if the
\* peer had room for the message, to n.
reached(n, m) == readData(mux[Peer(n)], epoch[n], m)
acked(n) ==
    IF hasRoom(mux[Peer(n)], epoch[n]) THEN readFrame(mux[n], epoch[Peer(n)]) ELSE mux[n]

Roomy(n) == FreeConns(mux[n]) # {} /\ FreeConns(mux[Peer(n)]) # {}

\* Conn.Send in a handshake: it succeeds if an acknowledgement comes and
\* still finds the connection that waits for it.  On a closed connection it
\* may still succeed, as transmit's select takes either of two ready cases.
SendSucceeds(n, t) ==
    Roomy(n) /\ hasRoom(mux[Peer(n)], epoch[n]) /\ acked(n).cur = t.conn
SendFails(n, t, m) ==
    /\ Roomy(n)
    /\ \/ /\ ~SendSucceeds(n, t) \/ ~IsOpen(mux[n], t.conn)
          /\ fail(n, t, acked(n), reached(n, m))
          /\ UNCHANGED budget
       \/ /\ spend(n, "loss")
          /\ \E theirs \in {mux[Peer(n)], reached(n, m)} : fail(n, t, mux[n], theirs)
SendStep(n, t, m, t2) ==
    /\ \/ /\ SendSucceeds(n, t)
          /\ become(n, acked(n), reached(n, m), (tasks[n] \ {t}) \cup {t2})
          /\ UNCHANGED budget
       \/ SendFails(n, t, m)
    /\ UNCHANGED <<epoch, table>>

\* Some handshake has something to do at once: the 30 s timers do not fire
\* before it, unless the node is slow.
Sending(t) ==
    \/ t.pc \in {"adding", "closing"}
    \/ IF Role(t) = "init" THEN t.pc \in {"hello", "complete", "policyOut"}
       ELSE t.pc \in {"ack", "policyOut"}
Busy ==
    \E n \in Node :
        \/ mux[n].accepts # <<>>
        \/ \E t \in tasks[n] :
            /\ t.kind # "pump"
            /\ Sending(t) \/ inbox(n, t) # <<>> \/ ~IsOpen(mux[n], t.conn)

\* conn.Recv fails because the connection was closed ...
RecvFails(n, t) ==
    /\ ~IsOpen(mux[n], t.conn)
    /\ fail(n, t, mux[n], mux[Peer(n)])
    /\ UNCHANGED <<epoch, table, budget>>

\* Mutant of Expire: Respond waits without a deadline.
ExpireInit(n, role) ==
    \E t \in tasks[n] :
        /\ t.kind # "pump" /\ Role(t) = role /\ role = "init" /\ ~Sending(t)
        /\ (~Busy /\ UNCHANGED budget) \/ spend(n, "loss")
        /\ fail(n, t, mux[n], mux[Peer(n)])
        /\ UNCHANGED <<epoch, table>>

\* ... or because handshakeTimeout has passed.
Expire(n, role) ==
    \E t \in tasks[n] :
        /\ t.kind # "pump" /\ Role(t) = role /\ ~Sending(t)
        /\ (~Busy /\ UNCHANGED budget) \/ spend(n, "loss")
        /\ fail(n, t, mux[n], mux[Peer(n)])
        /\ UNCHANGED <<epoch, table>>

\* recvHandshake: the next message must be the expected one.
RecvStep(n, t, good, t2) ==
    \/ /\ inbox(n, t) # <<>>
       /\ IF good
          THEN become(n, take(n, t), mux[Peer(n)], (tasks[n] \ {t}) \cup {t2})
          ELSE fail(n, t, take(n, t), mux[Peer(n)])
       /\ UNCHANGED <<epoch, table, budget>>
    \/ RecvFails(n, t)

\* Session.open: only a frame under this key from the other end decrypts.
opens(m, a, b, role) ==
    m.type \in {"policy", "data"} /\ m.a = a /\ m.b = b /\ m.role # role

\* Session.Recv in recvPolicy: frames that do not open are dropped.
RecvPolicyDrops(n, t, m) ==
    /\ ~opens(m, t.a, t.b, Role(t))
    /\ become(n, take(n, t), mux[Peer(n)], tasks[n])
    /\ UNCHANGED <<epoch, table, budget>>

-----------------------------------------------------------------------------
(* adoptSession: Table.Add closes the session it replaces; then the pump.  *)

\* Table.Add holds the table's lock from here until the entry is set.
TableFree(n) == \A t \in tasks[n] : t.pc # "adding"

\* The entry is set, the lock released, and the goroutine becomes the pump.
setEntry(n, t, mine, theirs) ==
    LET s == Session(t.conn, t.a, t.b, Role(t))
    IN  /\ table' = [table EXCEPT ![n] = s]
        /\ become(n, mine, theirs, (tasks[n] \ {t}) \cup {Pump(s)})

\* Table.Add after the last message: the replaced session's Close returns at
\* once when its connection has left the map; else the connection is closed
\* now and leaves the map, and the entry is set, in a step of its own.
adopt(n, t, mine, theirs) ==
    /\ TableFree(n)
    /\ IF table[n] = NoSession \/ mine.cur # table[n].conn
       THEN setEntry(n, t, mine, theirs)
       ELSE /\ become(n, closeChannel(mine, table[n].conn), theirs,
                      (tasks[n] \ {t}) \cup {[t EXCEPT !.pc = "adding"]})
            /\ UNCHANGED table
    /\ UNCHANGED <<epoch, budget>>
FinishAdd(n, t) ==
    /\ t.pc = "adding"
    /\ setEntry(n, t, removeConn(mux[n], table[n].conn), mux[Peer(n)])
    /\ UNCHANGED <<epoch, budget>>

\* The pump of session s: handle or drop what arrives.
PumpRecv(n, t) ==
    /\ t.kind = "pump"
    /\ inbox(n, t) # <<>>
    /\ become(n, take(n, t), mux[Peer(n)], tasks[n])
    /\ UNCHANGED <<epoch, table, budget>>

\* Mutants of PumpEnd: the entry goes whoever owns it; it is never removed.
PumpEndRemoves(n, t) ==
    /\ t.kind = "pump"
    /\ TableFree(n)
    /\ ~IsOpen(mux[n], t.conn)
    /\ table' = [table EXCEPT ![n] = NoSession]
    /\ become(n, mux[n], mux[Peer(n)], tasks[n] \ {t})
    /\ UNCHANGED <<epoch, budget>>
PumpEndLeaks(n, t) ==
    /\ t.kind = "pump"
    /\ TableFree(n)
    /\ ~IsOpen(mux[n], t.conn)
    /\ become(n, mux[n], mux[Peer(n)], tasks[n] \ {t})
    /\ UNCHANGED <<epoch, table, budget>>

\* ... and RemoveSession when its connection is closed: the table entry goes
\* only if it is still this session's.
PumpEnd(n, t) ==
    /\ t.kind = "pump"
    /\ TableFree(n)
    /\ ~IsOpen(mux[n], t.conn)
    /\ table' = [table EXCEPT ![n] =
                    IF @ = Session(t.conn, t.a, t.b, t.role) THEN NoSession ELSE @]
    /\ become(n, mux[n], mux[Peer(n)], tasks[n] \ {t})
    /\ UNCHANGED <<epoch, budget>>

-----------------------------------------------------------------------------
(* The initiator: dialSeed and HandleConnect, then Initiate.               *)

\* transport.Dial: the connection in mux.peers (a closed one too, while its
\* Close is under way) or a new one, then a ping.  After a failed ping the
\* connection stays where it is.
\* left is the budget after the call itself was paid for.
Dial(n, kind, left) ==
    LET mine == IF mux[n].cur = 0 THEN newConn(mux[n], 0) ELSE mux[n]
        pong == readFrame(mine, epoch[Peer(n)])
        theirs == readFrame(mux[Peer(n)], epoch[n])
    IN  /\ Roomy(n) /\ Cardinality(FreeConns(mux[n])) > 1
        /\ HasFresh(n)
        /\ \/ /\ pong.cur = mine.cur
              /\ become(n, pong, theirs,
                        tasks[n] \cup {Task(kind, "hello", mine.cur, fresh(n), NoId)})
              /\ budget' = left
           \/ /\ pong.cur # mine.cur \/ ~IsOpen(mine, mine.cur)
              /\ become(n, pong, theirs, tasks[n])
              /\ budget' = left
           \/ /\ <<n, "loss">> \in left
              /\ budget' = left \ {<<n, "loss">>}
              /\ \E x \in {mux[Peer(n)], theirs} : become(n, mine, x, tasks[n])
        /\ UNCHANGED <<epoch, table>>

\* seedLoop: dial the seed unless the table has a session with it.
SeedDial(n) ==
    /\ n \in Seeders
    /\ \A t \in tasks[n] : t.kind # "seed"
    /\ table[n] = NoSession /\ TableFree(n)
    /\ Dial(n, "seed", budget)

Initiate(n, t) ==
    /\ t.kind \in {"seed", "user"}
    /\ \/ /\ t.pc = "hello"
          /\ SendStep(n, t, Msg("hello", t.a, NoId, "init"), [t EXCEPT !.pc = "ack"])
       \/ /\ t.pc = "ack"
          /\ LET m == Head(inbox(n, t))
             IN  RecvStep(n, t, m.type = "ack" /\ m.a = t.a,
                          [t EXCEPT !.pc = "complete", !.b = m.b])
       \/ /\ t.pc = "complete"
          /\ SendStep(n, t, Msg("complete", t.a, t.b, "init"), [t EXCEPT !.pc = "policyOut"])
       \/ /\ t.pc = "policyOut"
          /\ SendStep(n, t, Msg("policy", t.a, t.b, "init"), [t EXCEPT !.pc = "policyIn"])
       \/ /\ t.pc = "policyIn"
          /\ \/ /\ inbox(n, t) # <<>>
                /\ LET m == Head(inbox(n, t))
                   IN  \/ RecvPolicyDrops(n, t, m)
                       \/ /\ opens(m, t.a, t.b, "init")
                          /\ IF m.type = "policy"
                             THEN adopt(n, t, take(n, t), mux[Peer(n)])
                             ELSE /\ fail(n, t, take(n, t), mux[Peer(n)])
                                  /\ UNCHANGED <<epoch, table, budget>>
             \/ RecvFails(n, t)

-----------------------------------------------------------------------------
(* The responder: acceptLoop, then Respond.                                *)

Accept(n) ==
    /\ mux[n].accepts # <<>>
    /\ become(n, [mux[n] EXCEPT !.accepts = Tail(@)], mux[Peer(n)],
              tasks[n] \cup {Task("resp", "hello", Head(mux[n].accepts), NoId, NoId)})
    /\ UNCHANGED <<epoch, table, budget>>

Respond(n, t) ==
    /\ t.kind = "resp"
    /\ \/ /\ t.pc = "hello"
          /\ HasFresh(n)
          /\ LET m == Head(inbox(n, t))
             IN  RecvStep(n, t, m.type = "hello",
                          [t EXCEPT !.pc = "ack", !.a = m.a, !.b = fresh(n)])
       \/ /\ t.pc = "ack"
          /\ SendStep(n, t, Msg("ack", t.a, t.b, "resp"), [t EXCEPT !.pc = "complete"])
       \/ /\ t.pc = "complete"
          /\ LET m == Head(inbox(n, t))
             IN  RecvStep(n, t, m.type = "complete" /\ m.b = t.b,
                          [t EXCEPT !.pc = "policyIn", !.a = m.a])
       \/ /\ t.pc = "policyIn"
          /\ \/ /\ inbox(n, t) # <<>>
                /\ LET m == Head(inbox(n, t))
                   IN  \/ RecvPolicyDrops(n, t, m)
                       \/ /\ opens(m, t.a, t.b, "resp")
                          /\ RecvStep(n, t, m.type = "policy", [t EXCEPT !.pc = "policyOut"])
             \/ RecvFails(n, t)
       \/ /\ t.pc = "policyOut"
          /\ LET m == Msg("policy", t.a, t.b, "resp")
             IN  \/ SendSucceeds(n, t) /\ adopt(n, t, acked(n), reached(n, m))
                 \/ SendFails(n, t, m) /\ UNCHANGED <<epoch, table>>

-----------------------------------------------------------------------------
(* Disturbances.                                                           *)

\* The user asks for a connection to the peer, whether or not there is one
\* (one such call at a time).
HandleConnect(n) ==
    <<n, "connect">> \in budget /\ Dial(n, "user", budget \ {<<n, "connect">>})

\* relay sends an envelope over the session in the table; an error changes
\* nothing.  Bound: only into an inbox that is empty.
Relay(n) ==
    LET s == table[n]
        p == Peer(n)
    IN  /\ n \in Talkers
        /\ s # NoSession /\ TableFree(n)
        /\ mux[p].cur # 0 => conn(mux[p], mux[p].cur).inbox = <<>>
        /\ Roomy(n)
        /\ become(n, acked(n), reached(n, Msg("data", s.a, s.b, s.role)), tasks[n])
        /\ UNCHANGED <<epoch, table, budget>>

\* A frame that was delayed or repeated arrives: an acknowledgement nobody
\* waits for, from the peer's present lifetime or from an earlier one.
LateFrame(n) ==
    /\ FreeConns(mux[n]) # {}
    /\ spend(n, "stray")
    /\ \E e \in Epochs : become(n, readFrame(mux[n], e), mux[Peer(n)], tasks[n])
    /\ UNCHANGED <<epoch, table>>

\* The daemon restarts with an empty mux and table, and draws an epoch, which
\* is the old one once in 255 times.
Restart(n) ==
    /\ \E e \in Epochs :
        /\ spend(n, IF e = epoch[n] THEN "collide" ELSE "restart")
        /\ epoch' = [epoch EXCEPT ![n] = e]
    /\ become(n, EmptyMux, mux[Peer(n)], {})
    /\ table' = [table EXCEPT ![n] = NoSession]

\* The goroutine of kind k that works on connection c.
Run(n, k, c) ==
    \E t \in tasks[n] :
        /\ t.kind = k /\ t.conn = c
        /\ \/ Initiate(n, t) \/ Respond(n, t) \/ FinishClose(n, t)
           \/ FinishAdd(n, t) \/ PumpRecv(n, t) \/ PumpEnd(n, t)

Kinds == {"seed", "user", "resp", "pump"}

Next ==
    \E n \in Node :
        \/ SeedDial(n)
        \/ Accept(n)
        \/ \E k \in Kinds, c \in ConnIds : Run(n, k, c)
        \/ \E role \in {"init", "resp"} : Expire(n, role)
        \/ HandleConnect(n)
        \/ Relay(n)
        \/ LateFrame(n)
        \/ Restart(n)

Spec == Init /\ [][Next]_vars

\* seedLoop, acceptLoop and every goroutine keep running, and an armed timer
\* fires however often the nodes get busy before.  Disturbances are bounded,
\* so in the end messages get through and timers are patient.
Fairness ==
    \A n \in Node :
        /\ WF_vars(SeedDial(n))
        /\ WF_vars(Accept(n))
        /\ \A k \in Kinds, c \in ConnIds : WF_vars(Run(n, k, c))
        /\ \A role \in {"init", "resp"} : SF_vars(Expire(n, role))

FairSpec == Spec /\ Fairness

\* A node's entry has a pump on an open connection; and both ends hold the
\* two halves of one session.
Live(n) ==
    /\ table[n] # NoSession
    /\ Pump(table[n]) \in tasks[n]
    /\ IsOpen(mux[n], table[n].conn)
Federated ==
    /\ Live(Client) /\ Live(Server)
    /\ table[Client].a = table[Server].a
    /\ table[Client].b = table[Server].b
    /\ table[Client].role # table[Server].role

\* The nodes in Talkers have something to relay again and again.
Traffic == \A n \in Node : WF_vars(Relay(n))

\* The system in which nothing disturbs a handshake: a disturbance comes only
\* when the two nodes are federated.
QuietSpec ==
    /\ Init
    /\ [][Next /\ (budget' # budget => Federated)]_vars
    /\ Fairness /\ Traffic

-----------------------------------------------------------------------------
(* Properties.                                                             *)

Attempts == Node \X (1..MaxIds)
Sessions == [conn : ConnIds, a : Attempts, b : Attempts, role : {"init", "resp"}]

\* Every variable holds a value of its kind, every goroutine works on a
\* connection its node still knows, and the queue of connections for Accept
\* stays within acceptBacklog.
TypeOK ==
    /\ epoch \in [Node -> Epochs]
    /\ table \in [Node -> Sessions \cup {NoSession}]
    /\ budget \subseteq Disturbances
    /\ \A n \in Node :
        /\ mux[n].cur \in DOMAIN mux[n].conns \cup {0}
        /\ \A c \in DOMAIN mux[n].conns :
            /\ c \in ConnIds
            /\ mux[n].conns[c].remote \in Epochs \cup {0}
            /\ Len(mux[n].conns[c].inbox) <= InboxSize
        /\ \A t \in tasks[n] : t.kind \in Kinds /\ t.conn \in DOMAIN mux[n].conns
        /\ Len(mux[n].accepts) <= AcceptBacklog

\* Goroutine t is inside Close of connection c: of its own one, or in Table.Add
\* of the one of s, the session it replaces.
Closes(t, s, c) ==
    \/ t.pc = "closing" /\ t.conn = c
    \/ t.pc = "adding" /\ s # NoSession /\ s.conn = c

\* mux.peers holds every open connection to the peer: Close, the epoch check
\* of readLoop and Dial never leave a second open connection that frames no
\* longer reach (its reader would wait for ever).  And a closed connection is
\* in the map, where frames would be lost in it, only while the goroutine that
\* closed it is still inside Close and about to take it out.
OneOpenConn ==
    \A n \in Node :
        /\ \A c \in DOMAIN mux[n].conns : mux[n].conns[c].open => c = mux[n].cur
        /\ mux[n].cur # 0 /\ ~IsOpen(mux[n], mux[n].cur)
           => \E t \in tasks[n] : Closes(t, table[n], mux[n].cur)

\* However sessions replace each other (Table.Add) and pumps end late
\* (RemoveSession), an entry of the peer table has a pump that will remove it
\* when its connection dies, and a pump on an open connection owns the entry:
\* no session is alive that relay and seedConnected do not see.
TableMatchesPumps ==
    \A n \in Node :
        /\ table[n] # NoSession => Pump(table[n]) \in tasks[n]
        /\ \A t \in tasks[n] :
            t.kind = "pump" /\ IsOpen(mux[n], t.conn)
            => table[n] = Session(t.conn, t.a, t.b, t.role)

\* Every handshake ends: neither Respond, waiting on a connection that has
\* other readers or a peer that went away, nor the seed loop's attempt
\* is stuck for ever.
Responding(n, c) == \E t \in tasks[n] : t.kind = "resp" /\ t.conn = c
HandshakesEnd ==
    /\ \A n \in Node : []<>(\A t \in tasks[n] : t.kind # "seed")
    /\ \A n \in Node, c \in ConnIds : []<>~Responding(n, c)

\* An entry of the peer table whose connection was closed (by Table.Add, by
\* a failed handshake that shared it, by the epoch check) does not stay: it
\* would keep the seed loop from dialling.
DeadEntriesGo ==
    \A n \in Node :
        []<>(table[n] = NoSession \/ Live(n))

\* What the comment of seedLoop promises: federation with a seed is kept
\* alive, whatever goes wrong once in a while.
SeedAlive == []<>Federated
=============================================================================
