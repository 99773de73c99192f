-------------------------------- MODULE Ipc ---------------------------------
(***************************************************************************)
(* The Unix socket between a gandr client and gandrd (gandr/pkg/ipc): one  *)
(* client, its requests, each in a goroutine of its own, the client's read *)
(* loop, and the daemon's goroutine for the connection.  The two pipes of  *)
(* the socket are in order and hold a bounded number of frames: a write    *)
(* waits for room, and no write has a deadline.                            *)
(*                                                                         *)
(* A request carries its number n in the model only; on the wire there is  *)
(* the id.  `got` is the channel the caller waits on: "none", what was     *)
(* sent on it, or "closed".  Two fields are history: `by`, whose reply it  *)
(* got, and `lapped`, that ids had come round to one that was in use.      *)
(***************************************************************************)
EXTENDS Naturals, Sequences

CONSTANTS
    Channel,      \* channels a client may subscribe to
    MaxId,        \* 2^32 - 1: the largest request id
    FirstId,      \* the next id of a client that has been in use
    Late,         \* ids of its requests that timed out unanswered
    PipeCap,      \* frames each direction of the socket holds
    IncomingCap,  \* the channel Incoming, 256 envelopes
    PeerCap,      \* the channel PeerUpdates, 8 lists
    MaxRequests,  \* bound: requests made
    MaxPushes     \* bound: frames the daemon pushes

ASSUME IpcAssumption ==
    /\ {MaxId, PipeCap, IncomingCap, PeerCap} \subseteq Nat \ {0}
    /\ {MaxRequests, MaxPushes} \subseteq Nat /\ FirstId \in 1..MaxId
    /\ Late \subseteq 1..MaxId

VARIABLES
    client,  \* Client: closed, conn, nextID, waiting, incoming, peerInfo
    req,     \* the requests
    reader,  \* the reply that readLoop is about to hand over
    closing, \* the requests whose channels teardown is about to close
    daemon,  \* the connection at the daemon: listening, conn, subs, serving
    pushing, \* pushes that have passed wants and are not written yet
    pushes,  \* frames pushed
    c2s, s2c \* the frames in the socket

vars == <<client, req, reader, closing, daemon, pushing, pushes, c2s, s2c>>

Id == 1..MaxId
Request == 1..MaxRequests
Kind == [op : {"subscribe", "unsubscribe"}, arg : Channel] \cup [op : {"call"}, arg : {"any"}]
Push == [type : {"chat"}, arg : Channel] \cup [type : {"incoming", "peers"}, arg : {"any"}]
Nothing == [type |-> "nothing"]

\* What the daemon answers to request n with this id; 0 is a request of
\* before.  readLoop adds for whom it is.
Answer(id, n) == [type |-> "reply", id |-> id, n |-> n, to |-> 0]

NoRequest == [st |-> "none", id |-> 1, got |-> "none", by |-> 0, lapped |-> FALSE]

Init ==
    /\ client = [closed |-> FALSE, conn |-> TRUE, next |-> FirstId,
                 waiting |-> [i \in Id |-> 0], incoming |-> 0, peers |-> 0]
    /\ req = [n \in Request |-> NoRequest]
    /\ reader = Nothing /\ closing = {}
    /\ daemon = [conn |-> TRUE, subs |-> {}, serving |-> Nothing]
    /\ pushing = {} /\ pushes = 0 /\ c2s = <<>>
    /\ s2c \in {<<>>} \cup {<<Answer(i, 0)>> : i \in Late}

-----------------------------------------------------------------------------
(* The client: request.                                                    *)

Unregistered(i) == [client EXCEPT !.waiting[i] = 0]
Returns(n, got) ==
    [req EXCEPT ![n] = [NoRequest EXCEPT !.st = "returned", !.got = got, !.by = req[n].by,
                                         !.lapped = req[n].lapped]]

\* No request, waiting or on its way, and no reply has the id i any more.
\* The code does not look: ids come round after 2^32 - 1 requests.
Fresh(i) ==
    /\ client.waiting[i] = 0 /\ \A n \in Request : req[n].id = i => req[n].st \in {"none", "returned"}
    /\ \A f \in {c2s[j] : j \in DOMAIN c2s} \cup {s2c[j] : j \in DOMAIN s2c}
                \cup {reader, daemon.serving} : f.type \in {"reply", "request"} => f.id # i

\* Mutant of NextId: 0, the id of a push, is used as well.
NextIdZero(i) == (i + 1) % (MaxId + 1)

NextId(i) == IF i = MaxId THEN 1 ELSE i + 1

Registered(n) ==
    [req EXCEPT ![n] = [NoRequest EXCEPT !.st = "registered", !.id = client.next,
                                         !.lapped = ~Fresh(client.next)]]

\* Mutant of Register: the id of an earlier request is used again.
RegisterSameId ==
    \E n \in Request :
        /\ req[n].st = "none" /\ \A j \in 1..(n - 1) : req[j].st # "none"
        /\ IF client.closed
           THEN req' = Returns(n, "closed") /\ UNCHANGED client
           ELSE /\ client' = [client EXCEPT !.waiting[client.next] = n]
                /\ req' = [req EXCEPT ![n] = [NoRequest EXCEPT !.st = "registered", !.id = client.next]]
        /\ UNCHANGED <<reader, closing, daemon, pushing, pushes, c2s, s2c>>

\* Under the lock: the next id, and an entry in waiting, whether or not there
\* is one under that id.
Register ==
    \E n \in Request :
        /\ req[n].st = "none" /\ \A j \in 1..(n - 1) : req[j].st # "none"
        /\ IF client.closed
           THEN req' = Returns(n, "closed") /\ UNCHANGED client
           ELSE /\ client' = [client EXCEPT !.next = NextId(@),
                                            !.waiting[client.next] = n]
                /\ req' = Registered(n)
        /\ UNCHANGED <<reader, closing, daemon, pushing, pushes, c2s, s2c>>

\* WriteFrame, one caller at a time; on a socket that is closed it fails.
Write(n) ==
    /\ req[n].st = "registered"
    /\ \/ /\ client.conn /\ daemon.conn /\ Len(c2s) < PipeCap
          /\ \E k \in Kind :
                c2s' = Append(c2s, [type |-> "request", id |-> req[n].id, kind |-> k, n |-> n])
          /\ req' = [req EXCEPT ![n].st = "written"]
          /\ UNCHANGED client
       \/ /\ ~client.conn \/ ~daemon.conn
          /\ client' = Unregistered(req[n].id)
          /\ req' = Returns(n, "failed")
          /\ UNCHANGED c2s
    /\ UNCHANGED <<reader, closing, daemon, pushing, pushes, s2c>>

\* The caller gets what was sent on its channel, or finds it closed.
Receive(n) ==
    /\ req[n].st = "written" /\ req[n].got # "none"
    /\ req' = Returns(n, req[n].got)
    /\ UNCHANGED <<client, reader, closing, daemon, pushing, pushes, c2s, s2c>>

\* The context ends first.
TimeOut(n) ==
    /\ req[n].st = "written"
    /\ client' = Unregistered(req[n].id)
    /\ req' = Returns(n, "failed")
    /\ UNCHANGED <<reader, closing, daemon, pushing, pushes, c2s, s2c>>

-----------------------------------------------------------------------------
(* The client: readLoop and teardown.                                      *)

\* A push finds room in its channel, or is dropped.
Keep(count, cap) == IF count < cap THEN count + 1 ELSE count

\* Mutant of ReadPush: the send to the channel has no default.
ReadPushBlocks ==
    /\ reader = Nothing /\ client.conn /\ s2c # <<>>
    /\ \/ /\ Head(s2c).type \in {"chat", "incoming"} /\ client.incoming < IncomingCap
          /\ client' = [client EXCEPT !.incoming = @ + 1]
       \/ /\ Head(s2c).type = "peers" /\ client.peers < PeerCap
          /\ client' = [client EXCEPT !.peers = @ + 1]
    /\ s2c' = Tail(s2c)
    /\ UNCHANGED <<req, reader, closing, daemon, pushing, pushes, c2s>>

ReadPush ==
    /\ reader = Nothing /\ client.conn /\ s2c # <<>>
    /\ \/ /\ Head(s2c).type \in {"chat", "incoming"}
          /\ client' = [client EXCEPT !.incoming = Keep(@, IncomingCap)]
       \/ /\ Head(s2c).type = "peers"
          /\ client' = [client EXCEPT !.peers = Keep(@, PeerCap)]
    /\ s2c' = Tail(s2c)
    /\ UNCHANGED <<req, reader, closing, daemon, pushing, pushes, c2s>>

\* Mutant of ReadReply: the entry stays in waiting until the caller returns.
ReadReplyKept ==
    /\ reader = Nothing /\ client.conn /\ s2c # <<>> /\ Head(s2c).type = "reply"
    /\ LET n == client.waiting[Head(s2c).id]
       IN  reader' = IF n = 0 THEN Nothing ELSE [Head(s2c) EXCEPT !.to = n]
    /\ s2c' = Tail(s2c)
    /\ UNCHANGED <<client, req, closing, daemon, pushing, pushes, c2s>>

\* A reply: its entry leaves waiting under the lock, and the channel is
\* written to after that; without an entry the reply is dropped.
ReadReply ==
    /\ reader = Nothing /\ client.conn /\ s2c # <<>> /\ Head(s2c).type = "reply"
    /\ LET n == client.waiting[Head(s2c).id]
       IN  /\ reader' = IF n = 0 THEN Nothing ELSE [Head(s2c) EXCEPT !.to = n]
           /\ client' = Unregistered(Head(s2c).id)
    /\ s2c' = Tail(s2c)
    /\ UNCHANGED <<req, closing, daemon, pushing, pushes, c2s>>

\* The channel has a buffer of one: nobody need be waiting any more.
HandOver ==
    /\ reader # Nothing
    /\ req[reader.to].got \in {"none", "failed"}
    /\ req' = IF req[reader.to].st = "returned" THEN req
              ELSE [req EXCEPT ![reader.to].got = "reply", ![reader.to].by = reader.n]
    /\ reader' = Nothing
    /\ UNCHANGED <<client, closing, daemon, pushing, pushes, c2s, s2c>>

\* teardown, by readLoop at the end of the stream or by Close; once.
Teardown ==
    /\ ~client.closed
    /\ client' = [client EXCEPT !.closed = TRUE, !.waiting = [i \in Id |-> 0]]
    /\ closing' = {client.waiting[i] : i \in Id} \ {0}
    /\ UNCHANGED <<req, reader, daemon, pushing, pushes, c2s, s2c>>
EndOfStream == reader = Nothing /\ s2c = <<>> /\ ~daemon.conn /\ Teardown
Close == Teardown

\* Mutant of CloseWaiting: the callers are left waiting.
CloseWaitingNot ==
    /\ client.closed /\ client.conn
    /\ closing' = {} /\ client' = [client EXCEPT !.conn = FALSE]
    /\ s2c' = <<>>
    /\ UNCHANGED <<req, reader, daemon, pushing, pushes, c2s>>

\* teardown closes the channels it took out of waiting, then the socket.
CloseWaiting ==
    /\ client.closed /\ client.conn
    /\ req' = [n \in Request |-> IF n \in closing /\ req[n].got = "none"
                                 THEN [req[n] EXCEPT !.got = "closed"] ELSE req[n]]
    /\ closing' = {} /\ client' = [client EXCEPT !.conn = FALSE]
    /\ s2c' = <<>>
    /\ UNCHANGED <<reader, daemon, pushing, pushes, c2s>>

\* The client takes what came.
Drain ==
    /\ \/ client.incoming > 0 /\ client' = [client EXCEPT !.incoming = @ - 1]
       \/ client.peers > 0 /\ client' = [client EXCEPT !.peers = @ - 1]
    /\ UNCHANGED <<req, reader, closing, daemon, pushing, pushes, c2s, s2c>>

-----------------------------------------------------------------------------
(* The daemon: serve, dispatch and broadcast.                              *)

\* dispatch: the subscriptions change, or the daemon answers; a refusal is a
\* reply too.  One request at a time.
Dispatch ==
    /\ daemon.conn /\ daemon.serving = Nothing /\ c2s # <<>>
    /\ LET f == Head(c2s)
       IN  daemon' = [daemon EXCEPT
                !.subs = CASE f.kind.op = "subscribe" -> @ \cup {f.kind.arg}
                           [] f.kind.op = "unsubscribe" -> @ \ {f.kind.arg}
                           [] OTHER -> @,
                !.serving = Answer(f.id, f.n)]
    /\ c2s' = Tail(c2s)
    /\ UNCHANGED <<client, req, reader, closing, pushing, pushes, s2c>>

\* reply and sendError; an error of the write is ignored.
Reply ==
    /\ daemon.serving # Nothing
    /\ \/ /\ client.conn /\ daemon.conn /\ Len(s2c) < PipeCap
          /\ s2c' = Append(s2c, daemon.serving)
       \/ (~client.conn \/ ~daemon.conn) /\ UNCHANGED s2c
    /\ daemon' = [daemon EXCEPT !.serving = Nothing]
    /\ UNCHANGED <<client, req, reader, closing, pushing, pushes, c2s>>

\* wants: chat is for subscribers, all else for every client.
Wants(p) == p.type = "chat" => p.arg \in daemon.subs

\* broadcast and PushPeerUpdate take the connections, and write afterwards.
Broadcast ==
    \E p \in Push :
        /\ daemon.conn /\ pushes < MaxPushes /\ Wants(p) /\ p \notin pushing
        /\ pushing' = pushing \cup {p} /\ pushes' = pushes + 1
        /\ UNCHANGED <<client, req, reader, closing, daemon, c2s, s2c>>
WritePush(p) ==
    /\ p \in pushing
    /\ \/ /\ client.conn /\ daemon.conn /\ Len(s2c) < PipeCap
          /\ s2c' = Append(s2c, p)
       \/ (~client.conn \/ ~daemon.conn) /\ UNCHANGED s2c
    /\ pushing' = pushing \ {p}
    /\ UNCHANGED <<client, req, reader, closing, daemon, pushes, c2s>>

\* serve ends when the client has gone, or when Close of the server closed
\* the connection; what the daemon has written can still be read.
ServeEnds ==
    /\ daemon.conn /\ daemon.serving = Nothing /\ ~client.conn
    /\ daemon' = [daemon EXCEPT !.conn = FALSE]
    /\ c2s' = <<>>
    /\ UNCHANGED <<client, req, reader, closing, pushing, pushes, s2c>>
ServerClose ==
    /\ daemon.conn
    /\ daemon' = [daemon EXCEPT !.conn = FALSE]
    /\ c2s' = <<>>
    /\ UNCHANGED <<client, req, reader, closing, pushing, pushes, s2c>>

Next ==
    \/ Register \/ ReadPush \/ ReadReply \/ HandOver \/ EndOfStream \/ Close \/ CloseWaiting
    \/ Drain \/ Dispatch \/ Reply \/ Broadcast \/ ServeEnds \/ ServerClose
    \/ \E n \in Request : Write(n) \/ Receive(n) \/ TimeOut(n)
    \/ \E p \in Push : WritePush(p)

\* Goroutines that can run do run: the callers, readLoop, teardown, serve and
\* the pushes.  Nothing makes a request time out, the client drain, or either
\* end close.
Fairness ==
    /\ \A n \in Request : WF_vars(Write(n) \/ Receive(n))
    /\ WF_vars(ReadPush \/ ReadReply \/ HandOver \/ EndOfStream)
    /\ WF_vars(CloseWaiting)
    /\ WF_vars(Dispatch \/ Reply \/ ServeEnds)
    /\ \A p \in Push : WF_vars(WritePush(p))

Spec == Init /\ [][Next]_vars /\ Fairness

-----------------------------------------------------------------------------
Frames == [type : {"request"}, id : Id, kind : Kind, n : Request]
          \cup [type : {"reply"}, id : Id, n : Request \cup {0}, to : Request \cup {0}] \cup Push

\* Every variable has its type, and the pipes and channels keep their bounds.
TypeOK ==
    /\ client \in [closed : BOOLEAN, conn : BOOLEAN, next : Id,
                   waiting : [Id -> Request \cup {0}],
                   incoming : 0..IncomingCap, peers : 0..PeerCap]
    /\ req \in [Request -> [st : {"none", "registered", "written", "returned"}, id : Id,
                            by : Request \cup {0}, lapped : BOOLEAN,
                            got : {"none", "reply", "closed", "failed"}]]
    /\ reader \in Frames \cup {Nothing} /\ closing \subseteq Request
    /\ daemon.subs \subseteq Channel /\ daemon.serving \in Frames \cup {Nothing}
    /\ pushing \subseteq Push /\ pushes \in 0..MaxPushes
    /\ c2s \in Seq(Frames) /\ Len(c2s) <= PipeCap
    /\ s2c \in Seq(Frames) /\ Len(s2c) <= PipeCap

\* A caller that gets a reply gets the reply to its own request, whatever
\* times out, comes late or is torn down meanwhile, and although ids come
\* round: only a caller whose id was still in use when nextID came back to it
\* may get the late reply to an earlier one.
OwnReply == \A n \in Request : req[n].got = "reply" => req[n].by = n \/ req[n].lapped

\* readLoop never blocks on the channel it hands a reply to, and never writes
\* to one that teardown closes: it is empty, and nobody else has it.
HandsOverSafely ==
    reader # Nothing =>
        /\ req[reader.to].got \in {"none", "failed"}
        /\ reader.to \notin closing
        /\ \A i \in Id : client.waiting[i] # reader.to

\* Every request returns, without a deadline: answered, or told that the
\* connection is gone.  An id that is taken again while in use is excepted:
\* the two then share an entry in waiting, and one of them loses it.
RequestsEnd ==
    \A n \in Request :
        (req[n].st \in {"registered", "written"})
        ~> (req[n].st = "returned" \/ \E m \in Request : req[m].lapped)

\* A client that does not drain never stalls the daemon: every push is
\* written or fails, and so in the end all of them are.
PushesEnd == <>[](pushing = {})
=============================================================================
