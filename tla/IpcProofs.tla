----------------------------- MODULE IpcProofs ------------------------------
(***************************************************************************)
(* For every number of requests and pushes, every capacity and every range *)
(* of ids: a caller whose id was free when it took it gets the reply to    *)
(* its own request, and the read loop hands replies over without blocking  *)
(* and without writing to a channel that teardown closes.                  *)
(***************************************************************************)
EXTENDS Ipc, SequenceTheorems, TLAPS

Requests == [type : {"request"}, id : Id, kind : Kind, n : Request]
Replies == [type : {"reply"}, id : Id, n : Request \cup {0}, to : Request \cup {0}]

ClientType == [closed : BOOLEAN, conn : BOOLEAN, next : Id, waiting : [Id -> Request \cup {0}],
               incoming : 0..IncomingCap, peers : 0..PeerCap]
ReqType == [st : {"none", "registered", "written", "returned"}, id : Id,
            by : Request \cup {0}, lapped : BOOLEAN, got : {"none", "reply", "closed", "failed"}]

\* TypeOK, with the kind of frame that travels in each place.
Types ==
    /\ client \in ClientType /\ req \in [Request -> ReqType]
    /\ reader \in Replies \cup {Nothing} /\ closing \subseteq Request
    /\ daemon \in [conn : BOOLEAN, subs : SUBSET Channel, serving : Replies \cup {Nothing}]
    /\ pushing \subseteq Push /\ pushes \in 0..MaxPushes
    /\ c2s \in Seq(Requests) /\ Len(c2s) <= PipeCap
    /\ s2c \in Seq(Replies \cup Push) /\ Len(s2c) <= PipeCap

\* The entry under an id is that of request n, if there is one, or that of a
\* request which took the id while it was in use.
Held(i, n) == client.waiting[i] \in {0, n} \/ req[client.waiting[i]].lapped

\* An entry of waiting is that of a request under way which has got nothing;
\* a request under way has its entry or has lost it.
Waits ==
    /\ \A i \in Id : client.waiting[i] # 0 =>
        LET n == client.waiting[i]
        IN  req[n].id = i /\ req[n].st \in {"registered", "written"} /\ req[n].got = "none"
    /\ \A n \in Request : req[n].st \in {"registered", "written"} =>
        Held(req[n].id, n)

\* teardown has taken every entry before it closes the channels.
Closes ==
    /\ client.closed => \A i \in Id : client.waiting[i] = 0
    /\ closing # {} => client.closed

Elements(s) == {s[j] : j \in DOMAIN s}
InFlight == Elements(c2s) \cup Elements(s2c) \cup {daemon.serving}

\* A request or reply on its way has the id of its own entry, or of none.
Routed == \A f \in InFlight : f.type \in {"reply", "request"} => Held(f.id, f.n)

\* What readLoop is about to hand over is for the request it answers, or for
\* one that took its id; that was made, and teardown does not have it.
Hands ==
    reader # Nothing =>
        /\ reader.to \in Request
        /\ reader.to = reader.n \/ req[reader.to].lapped
        /\ req[reader.to].st # "none" /\ req[reader.to].got \in {"none", "failed"}
        /\ reader.to \notin closing
        /\ \A i \in Id : client.waiting[i] # reader.to

\* The inductive invariant.
IInv == Types /\ Waits /\ Closes /\ Routed /\ Hands /\ OwnReply

-----------------------------------------------------------------------------
(* Sequences.                                                              *)

\* What a pipe holds after a frame was appended.
LEMMA AppendElements ==
    ASSUME NEW S, NEW s \in Seq(S), NEW e
    PROVE  Elements(Append(s, e)) = Elements(s) \cup {e}
<1>1. /\ DOMAIN s = 1..Len(s) /\ DOMAIN Append(s, e) = 1..(Len(s) + 1)
      /\ \A j \in 1..Len(s) : Append(s, e)[j] = s[j]
      /\ Append(s, e)[Len(s) + 1] = e /\ Len(s) \in Nat
  OBVIOUS
<1> QED BY <1>1, SMT DEF Elements

\* What is left in a pipe after a frame was taken out, and what was taken.
LEMMA TailElements ==
    ASSUME NEW S, NEW s \in Seq(S), s # <<>>
    PROVE  /\ Tail(s) \in Seq(S) /\ Head(s) \in S /\ Len(Tail(s)) = Len(s) - 1
           /\ Head(s) \in Elements(s) /\ Elements(Tail(s)) \subseteq Elements(s)
<1>1. /\ DOMAIN s = 1..Len(s) /\ DOMAIN Tail(s) = 1..(Len(s) - 1)
      /\ \A j \in 1..(Len(s) - 1) : Tail(s)[j] = s[j + 1]
      /\ Head(s) = s[1] /\ Len(s) \in Nat \ {0}
      /\ Tail(s) \in Seq(S) /\ Head(s) \in S /\ Len(Tail(s)) = Len(s) - 1
  BY EmptySeq, HeadTailProperties, LenProperties, SMT
<1> QED BY <1>1, SMT DEF Elements

\* A frame written to a pipe that has room.
LEMMA PipeAppend ==
    ASSUME NEW S, NEW s \in Seq(S), NEW e \in S, Len(s) < PipeCap
    PROVE  Append(s, e) \in Seq(S) /\ Len(Append(s, e)) <= PipeCap
  BY AppendProperties, LenProperties, IpcAssumption

-----------------------------------------------------------------------------
(* Types.                                                                  *)

\* The stronger types imply TypeOK.
LEMMA TypesGiveTypeOK == Types => TypeOK
<1> SUFFICES ASSUME Types PROVE TypeOK
  OBVIOUS
<1>1. Requests \subseteq Frames /\ Replies \cup Push \subseteq Frames
  BY DEF Requests, Replies, Frames
<1>2. c2s \in Seq(Frames) /\ s2c \in Seq(Frames)
  BY <1>1 DEF Types
<1>3. reader \in Frames \cup {Nothing} /\ daemon.serving \in Frames \cup {Nothing}
      /\ daemon.subs \subseteq Channel
  BY <1>1 DEF Types
<1> QED BY <1>2, <1>3 DEF Types, TypeOK, ClientType, ReqType

\* The initial state has the types.
LEMMA TypesInit == Init => Types
<1> SUFFICES ASSUME Init PROVE Types
  OBVIOUS
<1>1. client \in ClientType
  BY IpcAssumption DEF Init, Id, ClientType
<1>2. req \in [Request -> ReqType]
  BY IpcAssumption DEF Init, NoRequest, Id, ReqType
<1>3. /\ c2s \in Seq(Requests) /\ s2c \in Seq(Replies \cup Push)
      /\ Len(c2s) = 0 /\ Len(s2c) <= PipeCap
  <2>1. \A i \in Late : Answer(i, 0) \in Replies
    BY IpcAssumption DEF Answer, Replies, Id
  <2>2. CASE s2c = <<>>
    BY <2>2, IpcAssumption DEF Init
  <2>3. CASE s2c # <<>>
    <3>1. PICK i \in Late : s2c = <<Answer(i, 0)>>
      BY <2>3 DEF Init
    <3> QED BY <2>1, <3>1, IpcAssumption DEF Init
  <2> QED BY <2>2, <2>3
<1>4. /\ daemon \in [conn : BOOLEAN, subs : SUBSET Channel, serving : Replies \cup {Nothing}]
      /\ reader = Nothing /\ closing = {} /\ pushing = {} /\ pushes = 0
  BY DEF Init
<1> QED BY <1>1, <1>2, <1>3, <1>4, IpcAssumption DEF Types

\* The next id is an id.
LEMMA NextIdType == ASSUME NEW i \in Id PROVE NextId(i) \in Id
  BY IpcAssumption DEF NextId, Id

\* A channel that was within its capacity stays there.
LEMMA KeepType ==
    ASSUME NEW cap \in Nat, NEW count \in 0..cap
    PROVE  Keep(count, cap) \in 0..cap
  BY DEF Keep

\* A request that was not made is a request.
LEMMA NoRequestType == NoRequest \in ReqType /\ NoRequest.got = "none"
  BY IpcAssumption DEF NoRequest, ReqType, Id

\* A request that returns: its record, and that of every other.
LEMMA ReturnsType ==
    ASSUME Types, NEW n \in Request, NEW g \in {"none", "reply", "closed", "failed"}
    PROVE  /\ Returns(n, g) \in [Request -> ReqType]
           /\ LET r == Returns(n, g)[n]
              IN  r.st = "returned" /\ r.got = g /\ r.by = req[n].by /\ r.lapped = req[n].lapped
           /\ \A m \in Request \ {n} : Returns(n, g)[m] = req[m]
<1> DEFINE r == [NoRequest EXCEPT !.st = "returned", !.got = g, !.by = req[n].by,
                                  !.lapped = req[n].lapped]
<1>1. req[n].by \in Request \cup {0} /\ req[n].lapped \in BOOLEAN /\ req \in [Request -> ReqType]
  BY DEF Types, ReqType
<1>2. r \in ReqType /\ r.st = "returned" /\ r.got = g /\ r.by = req[n].by /\ r.lapped = req[n].lapped
  BY <1>1, NoRequestType DEF ReqType
<1>3. Returns(n, g) = [req EXCEPT ![n] = r]
  BY DEF Returns
<1> HIDE DEF r
<1> QED BY <1>1, <1>2, <1>3

\* A request that registers: its record, and that of every other.
LEMMA RegisteredType ==
    ASSUME Types, NEW n \in Request
    PROVE  /\ Registered(n) \in [Request -> ReqType]
           /\ LET r == Registered(n)[n]
              IN  /\ r.st = "registered" /\ r.id = client.next /\ r.got = "none"
                  /\ Fresh(client.next) \/ r.lapped
           /\ \A m \in Request \ {n} : Registered(n)[m] = req[m]
<1> DEFINE r == [NoRequest EXCEPT !.st = "registered", !.id = client.next,
                                  !.lapped = ~Fresh(client.next)]
<1>1. client.next \in Id
  BY DEF Types, ClientType
<1>2. /\ r \in ReqType /\ r.st = "registered" /\ r.id = client.next /\ r.got = "none"
      /\ Fresh(client.next) \/ r.lapped
  <2>1. CASE Fresh(client.next)
    <3>1. r = [NoRequest EXCEPT !.st = "registered", !.id = client.next, !.lapped = FALSE]
      BY <2>1
    <3> HIDE DEF r
    <3> QED BY <1>1, <2>1, <3>1, NoRequestType DEF ReqType
  <2>2. CASE ~Fresh(client.next)
    <3>1. r = [NoRequest EXCEPT !.st = "registered", !.id = client.next, !.lapped = TRUE]
      BY <2>2
    <3> HIDE DEF r
    <3> QED BY <1>1, <3>1, NoRequestType DEF ReqType
  <2> QED BY <2>1, <2>2
<1>3. Registered(n) = [req EXCEPT ![n] = r]
  BY DEF Registered
<1> HIDE DEF r
<1>4. LET q == [req EXCEPT ![n] = r]
      IN  q \in [Request -> ReqType] /\ q[n] = r /\ \A m \in Request \ {n} : q[m] = req[m]
  BY <1>2 DEF Types
<1> QED BY <1>2, <1>3, <1>4

\* What HandOver does to the requests.
LEMMA HandOverType ==
    ASSUME Types, HandOver, reader.to \in Request, req[reader.to].st # "returned"
    PROVE  /\ req' \in [Request -> ReqType]
           /\ req'[reader.to] = [req[reader.to] EXCEPT !.got = "reply", !.by = reader.n]
           /\ \A m \in Request \ {reader.to} : req'[m] = req[m]
<1> DEFINE r == [req[reader.to] EXCEPT !.got = "reply", !.by = reader.n]
<1>1. reader \in Replies /\ req \in [Request -> ReqType] /\ req[reader.to] \in ReqType
  BY DEF HandOver, Types
<1>2. reader.n \in Request \cup {0}
  BY <1>1 DEF Replies
<1>3. r \in ReqType
  BY <1>1, <1>2 DEF ReqType
<1>4. req' = [[req EXCEPT ![reader.to].got = "reply"] EXCEPT ![reader.to].by = reader.n]
  BY DEF HandOver
<1>5. req' = [req EXCEPT ![reader.to] = r]
  BY <1>1, <1>4
<1> HIDE DEF r
<1>6. req' \in [Request -> ReqType] /\ req'[reader.to] = r
      /\ \A m \in Request \ {reader.to} : req'[m] = req[m]
  BY <1>1, <1>3, <1>5
<1> QED BY <1>6 DEF r

\* An entry that leaves waiting.
LEMMA UnregisteredType ==
    ASSUME Types, NEW i \in Id
    PROVE  /\ Unregistered(i) \in ClientType
           /\ Unregistered(i).closed = client.closed
           /\ Unregistered(i).waiting = [client.waiting EXCEPT ![i] = 0]
  BY DEF Types, Unregistered, ClientType

\* An entry that enters waiting.
LEMMA RegisterClient ==
    ASSUME Types, NEW n \in Request
    PROVE  LET c == [client EXCEPT !.next = NextId(@), !.waiting[client.next] = n]
           IN  /\ c \in ClientType /\ c.closed = client.closed
               /\ c.waiting = [client.waiting EXCEPT ![client.next] = n]
<1> DEFINE w == [client.waiting EXCEPT ![client.next] = n]
<1>1. client.next \in Id /\ NextId(client.next) \in Id
  BY NextIdType DEF Types, ClientType
<1>2. w \in [Id -> Request \cup {0}]
  BY <1>1 DEF Types, ClientType
<1>3. [client EXCEPT !.next = NextId(@), !.waiting[client.next] = n]
        = [client EXCEPT !.next = NextId(client.next), !.waiting = w]
  BY DEF Types, ClientType
<1> HIDE DEF w
<1>4. LET c == [client EXCEPT !.next = NextId(client.next), !.waiting = w]
      IN  c \in ClientType /\ c.closed = client.closed /\ c.waiting = w
  BY <1>1, <1>2 DEF Types, ClientType
<1> QED BY <1>3, <1>4 DEF w

\* Every step keeps the types.
LEMMA TypesStep == Types /\ [Next]_vars => Types'
<1> SUFFICES ASSUME Types, [Next]_vars PROVE Types'
  OBVIOUS
<1> USE DEF Types
<1>1. CASE Register
  <2> PICK n \in Request :
        /\ IF client.closed
           THEN req' = Returns(n, "closed") /\ UNCHANGED client
           ELSE /\ client' = [client EXCEPT !.next = NextId(@),
                                            !.waiting[client.next] = n]
                /\ req' = Registered(n)
        /\ UNCHANGED <<reader, closing, daemon, pushing, pushes, c2s, s2c>>
    BY <1>1 DEF Register
  <2>1. CASE client.closed
    BY <2>1, ReturnsType
  <2>2. CASE ~client.closed
    <3>1. client.next \in Id /\ NextId(client.next) \in Id
      BY NextIdType DEF ClientType
    <3>2. client' \in ClientType
      BY <2>2, <3>1, RegisterClient
    <3>3. Registered(n) \in [Request -> ReqType]
      BY RegisteredType
    <3> QED BY <2>2, <3>2, <3>3
  <2> QED BY <2>1, <2>2
<1>2. ASSUME NEW n \in Request, Write(n) PROVE Types'
  <2>1. req[n].id \in Id
    BY DEF ReqType
  <2>2. CASE ~client.conn \/ ~daemon.conn
    <3>1. /\ client' = Unregistered(req[n].id) /\ req' = Returns(n, "failed")
          /\ UNCHANGED <<reader, closing, daemon, pushing, pushes, c2s, s2c>>
      BY <1>2, <2>2 DEF Write
    <3>2. client' \in ClientType
      BY <2>1, <3>1, UnregisteredType
    <3>3. req' \in [Request -> ReqType]
      BY <3>1, ReturnsType
    <3> QED BY <3>1, <3>2, <3>3
  <2>3. CASE client.conn /\ daemon.conn
    <3>1. PICK k \in Kind :
            c2s' = Append(c2s, [type |-> "request", id |-> req[n].id, kind |-> k, n |-> n])
      BY <1>2, <2>3 DEF Write
    <3>2. Len(c2s) < PipeCap /\ req' = [req EXCEPT ![n].st = "written"] /\ UNCHANGED client
      BY <1>2, <2>3 DEF Write
    <3>3. [type |-> "request", id |-> req[n].id, kind |-> k, n |-> n] \in Requests
      BY <2>1 DEF Requests
    <3>4. c2s' \in Seq(Requests) /\ Len(c2s') <= PipeCap
      BY <3>1, <3>2, <3>3, PipeAppend
    <3>5. req' \in [Request -> ReqType]
      <4>1. req[n] \in ReqType
        OBVIOUS
      <4>2. [req[n] EXCEPT !.st = "written"] \in ReqType
        BY <4>1 DEF ReqType
      <4> QED BY <3>2, <4>2
    <3> QED BY <1>2, <3>2, <3>4, <3>5 DEF Write
  <2> QED BY <2>2, <2>3
<1>3. ASSUME NEW n \in Request, Receive(n) PROVE Types'
  <2>1. req[n].got \in {"none", "reply", "closed", "failed"}
    BY DEF ReqType
  <2> QED BY <1>3, <2>1, ReturnsType DEF Receive
<1>4. ASSUME NEW n \in Request, TimeOut(n) PROVE Types'
  <2>1. req[n].id \in Id
    BY DEF ReqType
  <2> QED BY <1>4, <2>1, ReturnsType, UnregisteredType DEF TimeOut
<1>5. CASE ReadPush
  <2>1. s2c' \in Seq(Replies \cup Push) /\ Len(s2c') <= PipeCap
    BY <1>5, TailElements, LenProperties, IpcAssumption DEF ReadPush
  <2>2. /\ client.incoming \in 0..IncomingCap /\ client.peers \in 0..PeerCap
        /\ IncomingCap \in Nat /\ PeerCap \in Nat
    BY IpcAssumption DEF ClientType
  <2>3. Keep(client.incoming, IncomingCap) \in 0..IncomingCap /\ Keep(client.peers, PeerCap) \in 0..PeerCap
    BY <2>2, KeepType
  <2>4. client' \in ClientType
    BY <1>5, <2>3 DEF ReadPush, ClientType
  <2> QED BY <1>5, <2>1, <2>4 DEF ReadPush
<1>6. CASE ReadReply
  <2>1. /\ s2c' \in Seq(Replies \cup Push) /\ Len(s2c') <= PipeCap
        /\ Head(s2c) \in Replies
    <3>1. Head(s2c) \in Replies \cup Push /\ Head(s2c).type = "reply"
      BY <1>6, TailElements DEF ReadReply
    <3>2. Head(s2c) \in Replies
      BY <3>1 DEF Push
    <3> QED BY <1>6, <3>2, TailElements, LenProperties, IpcAssumption DEF ReadReply
  <2>2. Head(s2c).id \in Id /\ client.waiting[Head(s2c).id] \in Request \cup {0}
    BY <2>1 DEF Replies, ClientType
  <2>3. reader' \in Replies \cup {Nothing}
    BY <1>6, <2>1, <2>2 DEF ReadReply, Replies
  <2> QED BY <1>6, <2>1, <2>2, <2>3, UnregisteredType DEF ReadReply
<1>7. CASE HandOver
  <2>1. reader \in Replies
    BY <1>7 DEF HandOver
  <2>2. reader.n \in Request \cup {0}
    BY <2>1 DEF Replies
  <2>3. req' \in [Request -> ReqType]
    <3>1. CASE reader.to \in Request
      BY <1>7, <3>1, HandOverType DEF HandOver
    <3>2. CASE reader.to \notin Request
      <4>1. req' = req \/ req' = [[req EXCEPT ![reader.to].got = "reply"] EXCEPT ![reader.to].by = reader.n]
        BY <1>7 DEF HandOver
      <4> QED BY <3>2, <4>1
    <3> QED BY <3>1, <3>2
  <2> QED BY <1>7, <2>3 DEF HandOver
<1>8. CASE Teardown
  <2>1. client' \in ClientType /\ closing' \subseteq Request
    BY <1>8 DEF Teardown, ClientType
  <2> QED BY <1>8, <2>1 DEF Teardown
<1>9. CASE CloseWaiting
  <2>1. client' \in ClientType /\ req' \in [Request -> ReqType]
    BY <1>9 DEF CloseWaiting, ClientType, ReqType
  <2>2. s2c' = <<>> /\ Len(s2c') = 0 /\ s2c' \in Seq(Replies \cup Push)
    BY <1>9 DEF CloseWaiting
  <2> QED BY <1>9, <2>1, <2>2, IpcAssumption DEF CloseWaiting
<1>10. CASE Drain
  <2>1. /\ client.incoming > 0 => client.incoming - 1 \in 0..IncomingCap
        /\ client.peers > 0 => client.peers - 1 \in 0..PeerCap
    BY IpcAssumption DEF ClientType
  <2>2. client' \in ClientType
    BY <1>10, <2>1 DEF Drain, ClientType
  <2> QED BY <1>10, <2>2 DEF Drain
<1>11. CASE Dispatch
  <2>1. /\ Head(c2s) \in Requests /\ c2s' \in Seq(Requests) /\ Len(c2s') <= PipeCap
    BY <1>11, TailElements, LenProperties, IpcAssumption DEF Dispatch
  <2>2. Answer(Head(c2s).id, Head(c2s).n) \in Replies
    BY <2>1 DEF Answer, Requests, Replies
  <2>3. Head(c2s).kind \in Kind
    BY <2>1 DEF Requests
  <2>4. \A k \in Kind : k.op \in {"subscribe", "unsubscribe"} => k.arg \in Channel
    BY DEF Kind
  <2>5. daemon' \in [conn : BOOLEAN, subs : SUBSET Channel, serving : Replies \cup {Nothing}]
    BY <1>11, <2>2, <2>3, <2>4 DEF Dispatch
  <2> QED BY <1>11, <2>1, <2>5 DEF Dispatch
<1>12. CASE Reply
  <2>1. daemon.serving \in Replies
    BY <1>12 DEF Reply
  <2>2. s2c' \in Seq(Replies \cup Push) /\ Len(s2c') <= PipeCap
    <3>1. CASE UNCHANGED s2c
      BY <3>1
    <3>2. CASE s2c' = Append(s2c, daemon.serving) /\ Len(s2c) < PipeCap
      BY <2>1, <3>2, PipeAppend
    <3> QED BY <1>12, <3>1, <3>2 DEF Reply
  <2> QED BY <1>12, <2>2 DEF Reply
<1>13. CASE Broadcast
  BY <1>13, IpcAssumption DEF Broadcast
<1>14. ASSUME NEW p \in Push, WritePush(p) PROVE Types'
  <2>1. s2c' \in Seq(Replies \cup Push) /\ Len(s2c') <= PipeCap
    <3>1. CASE UNCHANGED s2c
      BY <3>1
    <3>2. CASE s2c' = Append(s2c, p) /\ Len(s2c) < PipeCap
      BY <3>2, PipeAppend
    <3> QED BY <1>14, <3>1, <3>2 DEF WritePush
  <2> QED BY <1>14, <2>1 DEF WritePush
<1>15. CASE ServeEnds \/ ServerClose
  <2>1. /\ c2s' = <<>> /\ daemon' = [daemon EXCEPT !.conn = FALSE]
        /\ UNCHANGED <<client, req, reader, closing, pushing, pushes, s2c>>
    BY <1>15 DEF ServeEnds, ServerClose
  <2>2. Len(c2s') = 0 /\ c2s' \in Seq(Requests) /\ PipeCap \in Nat
    BY <2>1, IpcAssumption
  <2>3. daemon' \in [conn : BOOLEAN, subs : SUBSET Channel, serving : Replies \cup {Nothing}]
    BY <2>1
  <2> QED BY <2>1, <2>2, <2>3
<1>16. CASE UNCHANGED vars
  BY <1>16 DEF vars
<1> QED
  BY <1>1, <1>2, <1>3, <1>4, <1>5, <1>6, <1>7, <1>8, <1>9, <1>10, <1>11, <1>12, <1>13, <1>14,
     <1>15, <1>16 DEF Next, EndOfStream, Close

-----------------------------------------------------------------------------
(* The invariant.                                                          *)

\* A request or reply on its way has the id of an entry.
LEMMA InFlightIds ==
    ASSUME Types, NEW f \in InFlight, f.type \in {"reply", "request"}
    PROVE  f \in Requests \cup Replies /\ f.id \in Id /\ f.n \in Request \cup {0}
<1>1. f \in Requests \cup Replies \cup Push \cup {Nothing}
  BY DEF InFlight, Elements, Types
<1>2. f \in Requests \cup Replies
  BY <1>1 DEF Push, Nothing
<1> QED BY <1>2 DEF Requests, Replies

\* Routed survives a step that takes frames and entries away, or sends frames
\* whose ids are nobody else's.
LEMMA RoutedKeeps ==
    ASSUME Types, Routed,
           \A i \in Id : client'.waiting[i] \in {0, client.waiting[i]},
           \A m \in Request : req'[m].lapped = req[m].lapped,
           \A f \in InFlight' : f \in InFlight \/ f.type \notin {"reply", "request"}
                                \/ (f.id \in Id /\ Held(f.id, f.n))
    PROVE  Routed'
<1>1. ASSUME NEW i \in Id, NEW n, Held(i, n)
      PROVE  client'.waiting[i] \in {0, n} \/ req'[client'.waiting[i]].lapped
  <2>1. client.waiting[i] \in Request \cup {0}
    BY DEF Types, ClientType
  <2> QED BY <1>1, <2>1 DEF Held
<1>2. ASSUME NEW f \in InFlight', f.type \in {"reply", "request"}
      PROVE  client'.waiting[f.id] \in {0, f.n} \/ req'[client'.waiting[f.id]].lapped
  <2>1. f.id \in Id /\ Held(f.id, f.n)
    BY <1>2, InFlightIds DEF Routed
  <2> QED BY <1>1, <2>1
<1>3. Routed' <=> \A f \in InFlight' : f.type \in {"reply", "request"} =>
        client'.waiting[f.id] \in {0, f.n} \/ req'[client'.waiting[f.id]].lapped
  BY DEF Routed, Held
<1> QED BY <1>2, <1>3

\* An entry that is taken out of waiting together with the return of its
\* request, by a failed write or by the end of the context.
LEMMA ForgetKeeps ==
    ASSUME IInv, NEW n \in Request, req[n].st \in {"registered", "written"},
           client' = Unregistered(req[n].id), req' = Returns(n, "failed"),
           UNCHANGED <<reader, closing, daemon, pushing, pushes, c2s, s2c>>
    PROVE  Waits' /\ Closes' /\ Routed' /\ Hands' /\ OwnReply'
<1>1. req[n].id \in Id /\ client.waiting \in [Id -> Request \cup {0}]
  BY DEF IInv, Types, ReqType, ClientType
<1>2. /\ client'.closed = client.closed
      /\ client'.waiting = [client.waiting EXCEPT ![req[n].id] = 0]
  BY <1>1, UnregisteredType DEF IInv
<1>3. /\ req'[n].st = "returned" /\ req'[n].got = "failed" /\ req'[n].by = req[n].by
      /\ \A m \in Request \ {n} : req'[m] = req[m]
      /\ \A m \in Request : req'[m].lapped = req[m].lapped
  <2>1. /\ req'[n].st = "returned" /\ req'[n].got = "failed" /\ req'[n].by = req[n].by
        /\ req'[n].lapped = req[n].lapped
        /\ \A m \in Request \ {n} : req'[m] = req[m]
    BY ReturnsType DEF IInv
  <2> QED BY <2>1
<1>4. \A i \in Id : client'.waiting[i] # 0 =>
        client'.waiting[i] = client.waiting[i] /\ client.waiting[i] \in Request \ {n}
  BY <1>1, <1>2 DEF IInv, Waits
<1>5. Waits'
  <2>1. ASSUME NEW i \in Id, client'.waiting[i] # 0
        PROVE  LET m == client'.waiting[i]
               IN  req'[m].id = i /\ req'[m].st \in {"registered", "written"} /\ req'[m].got = "none"
    BY <1>3, <1>4, <2>1 DEF IInv, Waits
  <2>2. ASSUME NEW m \in Request, req'[m].st \in {"registered", "written"}
        PROVE  Held(req[m].id, m)'
    <3>1. m # n /\ req'[m] = req[m] /\ req[m].id \in Id
      BY <1>3, <2>2 DEF IInv, Types, ReqType
    <3>2. Held(req[m].id, m)
      BY <2>2, <3>1 DEF IInv, Waits
    <3> QED BY <1>1, <1>3, <1>4, <3>1, <3>2 DEF Held
  <2> QED BY <2>1, <2>2 DEF Waits
<1>6. Closes'
  BY <1>1, <1>2 DEF IInv, Closes
<1>7. Routed'
  <2>1. InFlight' = InFlight
    BY DEF InFlight
  <2>2. \A i \in Id : client'.waiting[i] \in {0, client.waiting[i]}
    BY <1>1, <1>2
  <2> QED BY <1>3, <2>1, <2>2, RoutedKeeps DEF IInv
<1>8. Hands'
  <2> SUFFICES ASSUME reader # Nothing PROVE Hands'
    BY DEF Hands
  <2>1. reader.to \in Request
    BY DEF IInv, Hands
  <2>2. req'[reader.to].st # "none" /\ req'[reader.to].got \in {"none", "failed"}
    BY <1>3, <2>1 DEF IInv, Hands
  <2>3. \A i \in Id : client'.waiting[i] # reader.to
    BY <1>1, <1>2, <2>1 DEF IInv, Hands, Request
  <2> QED BY <1>3, <2>1, <2>2, <2>3 DEF IInv, Hands
<1>9. OwnReply'
  BY <1>3 DEF IInv, OwnReply
<1> QED BY <1>5, <1>6, <1>7, <1>8, <1>9

\* A step that leaves the entries, the requests and the reader alone and sends
\* nothing that is not routed.
LEMMA TransportKeeps ==
    ASSUME IInv, UNCHANGED <<req, reader, closing>>,
           client'.waiting = client.waiting, client'.closed = client.closed,
           \A f \in InFlight' : f \in InFlight \/ f.type \notin {"reply", "request"}
                                \/ (f.id \in Id /\ Held(f.id, f.n))
    PROVE  Waits' /\ Closes' /\ Routed' /\ Hands' /\ OwnReply'
<1>1. Waits' /\ Closes' /\ Hands' /\ OwnReply'
  BY DEF IInv, Waits, Held, Closes, Hands, OwnReply
<1>2. Routed'
  BY RoutedKeeps DEF IInv, Types, ClientType
<1> QED BY <1>1, <1>2

\* The initial state satisfies the invariant.
LEMMA InvInit == Init => IInv
<1> SUFFICES ASSUME Init PROVE IInv
  OBVIOUS
<1>1. Types
  BY TypesInit
<1>2. Waits /\ Closes /\ Hands /\ OwnReply
  BY DEF Init, Waits, Closes, Hands, OwnReply, NoRequest
<1>3. Routed
  <2>1. \A f \in InFlight : f.type \in {"reply", "request"} => f.id \in Id
    BY <1>1, InFlightIds
  <2>2. \A i \in Id : client.waiting[i] = 0
    BY DEF Init
  <2> QED BY <2>1, <2>2 DEF Routed, Held
<1> QED BY <1>1, <1>2, <1>3 DEF IInv

\* A new request: under an id that nothing has, or it has lapped.
LEMMA RegisterKeeps ==
    ASSUME IInv, Register
    PROVE  Waits' /\ Closes' /\ Routed' /\ Hands' /\ OwnReply'
<1>0. PICK n \in Request :
        /\ req[n].st = "none"
        /\ IF client.closed
           THEN req' = Returns(n, "closed") /\ UNCHANGED client
           ELSE /\ client' = [client EXCEPT !.next = NextId(@),
                                            !.waiting[client.next] = n]
                /\ req' = Registered(n)
        /\ UNCHANGED <<reader, closing, daemon, pushing, pushes, c2s, s2c>>
  BY DEF Register
<1>a. \A i \in Id : client.waiting[i] # n
  BY <1>0 DEF IInv, Waits, Request
<1>b. reader # Nothing => reader.to \in Request /\ reader.to # n
  BY <1>0 DEF IInv, Hands, Types, Replies
<1>c. client.waiting \in [Id -> Request \cup {0}] /\ \A m \in Request : req[m].id \in Id
  BY DEF IInv, Types, ClientType, ReqType
<1>1. CASE client.closed
  <2>1. /\ req'[n].st = "returned" /\ req'[n].got = "closed" /\ req'[n].lapped = req[n].lapped
        /\ \A m \in Request \ {n} : req'[m] = req[m]
        /\ UNCHANGED client
    BY <1>0, <1>1, ReturnsType DEF IInv
  <2>2. Waits'
    BY <1>a, <1>c, <2>1 DEF IInv, Waits, Held
  <2>3. Closes' /\ Routed'
    <3>1. \A m \in Request : req'[m].lapped = req[m].lapped
      BY <2>1
    <3>2. InFlight' = InFlight
      BY <1>0 DEF InFlight
    <3>3. \A j \in Id : client'.waiting[j] \in {0, client.waiting[j]}
      BY <2>1
    <3>4. Routed'
      BY <3>1, <3>2, <3>3, RoutedKeeps DEF IInv
    <3> QED BY <1>0, <2>1, <3>4 DEF IInv, Closes
  <2>4. Hands' /\ OwnReply'
    BY <1>0, <1>b, <2>1 DEF IInv, Hands, OwnReply
  <2> QED BY <2>2, <2>3, <2>4
<1>2. CASE ~client.closed
  <2>1. PICK i \in Id : i = client.next
    BY DEF IInv, Types, ClientType
  <2>2. client'.closed = client.closed /\ client'.waiting = [client.waiting EXCEPT ![i] = n]
    BY <1>0, <1>2, <2>1, RegisterClient DEF IInv
  <2>4. /\ req'[n].st = "registered" /\ req'[n].id = i /\ req'[n].got = "none"
        /\ \A m \in Request \ {n} : req'[m] = req[m]
        /\ Fresh(i) \/ req'[n].lapped
    BY <1>0, <1>2, <2>1, RegisteredType DEF IInv
  <2>a. Fresh(i) \/ req'[n].lapped
    BY <2>4
  <2>5. Fresh(i) => \A m \in Request : req[m].id = i => req[m].st \in {"none", "returned"}
    BY DEF Fresh
  <2>6. Waits'
    <3>1. ASSUME NEW j \in Id, client'.waiting[j] # 0
          PROVE  LET m == client'.waiting[j]
                 IN  req'[m].id = j /\ req'[m].st \in {"registered", "written"} /\ req'[m].got = "none"
      <4>1. CASE j = i
        BY <1>c, <2>2, <2>4, <4>1
      <4>2. CASE j # i
        <5>1. client'.waiting[j] = client.waiting[j] /\ client.waiting[j] \in Request \ {n}
          BY <1>a, <1>c, <2>1, <2>2, <3>1, <4>2
        <5> QED BY <2>4, <3>1, <5>1 DEF IInv, Waits
      <4> QED BY <4>1, <4>2
    <3>2. ASSUME NEW m \in Request, req'[m].st \in {"registered", "written"}
          PROVE  Held(req[m].id, m)'
      <4>1. CASE m = n
        BY <1>c, <2>1, <2>2, <2>4, <4>1 DEF Held
      <4>2. CASE m # n /\ req[m].id = i
        <5>1. ~Fresh(i) /\ req'[m].id = i /\ client'.waiting[i] = n
          BY <1>c, <2>1, <2>2, <2>4, <2>5, <3>2, <4>2
        <5> QED BY <2>a, <5>1 DEF Held
      <4>3. CASE m # n /\ req[m].id # i
        <5>1. req'[m] = req[m] /\ req[m].id \in Id \ {i} /\ Held(req[m].id, m)
          BY <1>c, <2>4, <3>2, <4>3 DEF IInv, Waits
        <5>2. /\ client'.waiting[req[m].id] = client.waiting[req[m].id]
              /\ client.waiting[req[m].id] \in (Request \cup {0}) \ {n}
          BY <1>0, <1>a, <1>c, <2>1, <2>2, <5>1 DEF Request
        <5> QED BY <2>4, <5>1, <5>2 DEF Held
      <4> QED BY <4>1, <4>2, <4>3
    <3> QED BY <3>1, <3>2 DEF Waits
  <2>7. Closes'
    BY <1>0, <1>2, <2>2 DEF IInv, Closes
  <2>8. Routed'
    <3> SUFFICES ASSUME NEW f \in InFlight, f.type \in {"reply", "request"}
                 PROVE  client'.waiting[f.id] \in {0, f.n} \/ req'[client'.waiting[f.id]].lapped
      <4>1. InFlight' = InFlight
        BY <1>0 DEF InFlight
      <4> QED BY <4>1 DEF Routed, Held
    <3>1. f.id \in Id /\ Held(f.id, f.n)
      BY InFlightIds DEF IInv, Routed
    <3>2. CASE f.id = i
      <4>1. ~Fresh(i) /\ client'.waiting[f.id] = n
        BY <1>c, <2>1, <2>2, <3>2 DEF Fresh, InFlight, Elements
      <4> QED BY <2>a, <4>1
    <3>3. CASE f.id # i
      <4>1. /\ client'.waiting[f.id] = client.waiting[f.id]
            /\ client.waiting[f.id] \in (Request \cup {0}) \ {n}
        BY <1>0, <1>a, <1>c, <2>1, <2>2, <3>1, <3>3 DEF Request
      <4> QED BY <2>4, <3>1, <4>1 DEF Held
    <3> QED BY <3>2, <3>3
  <2>9. Hands'
    <3> SUFFICES ASSUME reader # Nothing PROVE Hands'
      BY <1>0 DEF Hands
    <3>1. \A j \in Id : client'.waiting[j] # reader.to
      BY <1>b, <1>c, <2>1, <2>2 DEF IInv, Hands
    <3> QED BY <1>0, <1>b, <2>4, <3>1 DEF IInv, Hands
  <2>10. OwnReply'
    BY <2>4 DEF IInv, OwnReply
  <2> QED BY <2>6, <2>7, <2>8, <2>9, <2>10
<1> QED BY <1>1, <1>2

\* A reply is read: its entry becomes the reader's, and with it the channel.
LEMMA ReadReplyKeeps ==
    ASSUME IInv, ReadReply
    PROVE  Waits' /\ Closes' /\ Routed' /\ Hands' /\ OwnReply'
<1> DEFINE f == Head(s2c)
           n == client.waiting[f.id]
<1>1. /\ f \in InFlight /\ f.type = "reply" /\ Elements(Tail(s2c)) \subseteq Elements(s2c)
      /\ f \in Replies
  <2>1. /\ s2c # <<>> /\ s2c \in Seq(Replies \cup Push) /\ f.type = "reply"
    BY DEF ReadReply, IInv, Types
  <2>2. f \in Elements(s2c) /\ Elements(Tail(s2c)) \subseteq Elements(s2c) /\ f \in Replies \cup Push
    BY <2>1, TailElements
  <2> QED BY <2>1, <2>2 DEF InFlight, Push
<1>2. f.id \in Id /\ f.n \in Request \cup {0} /\ (n \in {0, f.n} \/ req[n].lapped)
  <2>1. f.id \in Id /\ f.n \in Request \cup {0} /\ Held(f.id, f.n)
    BY <1>1, InFlightIds DEF IInv, Routed
  <2> QED BY <2>1 DEF Held
<1>3. /\ client'.closed = client.closed
      /\ client'.waiting = [client.waiting EXCEPT ![f.id] = 0]
  BY <1>2, UnregisteredType DEF IInv, ReadReply
<1>4. /\ UNCHANGED <<req, closing, daemon, pushing, pushes, c2s>> /\ s2c' = Tail(s2c)
      /\ reader' = IF n = 0 THEN Nothing ELSE [f EXCEPT !.to = n]
  BY DEF ReadReply
<1>5. client.waiting \in [Id -> Request \cup {0}]
  BY DEF IInv, Types, ClientType
<1>6. n # 0 => reader'.to = n /\ reader'.n = f.n
  BY <1>1, <1>2, <1>4 DEF Replies
<1> HIDE DEF f, n
<1>7. \A i \in Id : client'.waiting[i] \in {0, client.waiting[i]}
  BY <1>2, <1>3, <1>5
<1>8. Waits'
  <2>1. \A m \in Request : req[m].st \in {"registered", "written"} => req[m].id \in Id
    BY DEF IInv, Types, ReqType
  <2> QED BY <1>4, <1>7, <2>1 DEF IInv, Waits, Held
<1>9. Closes'
  BY <1>3, <1>4, <1>7 DEF IInv, Closes
<1>10. Routed'
  <2>1. InFlight' \subseteq InFlight
    BY <1>1, <1>4 DEF InFlight
  <2> QED BY <1>4, <1>7, <2>1, RoutedKeeps DEF IInv
<1>11. Hands'
  <2>1. CASE n = 0
    BY <1>4, <2>1 DEF Hands
  <2>2. CASE n # 0
    <3>1. n \in Request /\ n = client.waiting[f.id]
      BY <1>2, <1>5, <2>2 DEF n
    <3>2. req[n].st # "none" /\ req[n].got = "none" /\ req[n].id = f.id
      BY <1>2, <2>2, <3>1 DEF IInv, Waits
    <3>3. closing = {}
      BY <1>2, <2>2, <3>1 DEF IInv, Closes
    <3>4. ASSUME NEW i \in Id PROVE client'.waiting[i] # n
      <4>1. CASE i = f.id
        BY <1>3, <1>5, <2>2, <4>1
      <4>2. CASE i # f.id
        BY <1>2, <1>3, <1>5, <2>2, <3>2, <4>2 DEF IInv, Waits
      <4> QED BY <4>1, <4>2
    <3> QED BY <1>2, <1>4, <1>6, <2>2, <3>1, <3>2, <3>3, <3>4 DEF Hands
  <2> QED BY <2>1, <2>2
<1>12. OwnReply'
  BY <1>4 DEF IInv, OwnReply
<1> QED BY <1>8, <1>9, <1>10, <1>11, <1>12

\* readLoop writes to the channel it took: its request gets its own reply, or
\* it has lapped.
LEMMA HandOverKeeps ==
    ASSUME IInv, HandOver
    PROVE  Waits' /\ Closes' /\ Routed' /\ Hands' /\ OwnReply'
<1>1. /\ reader \in Replies /\ reader.to \in Request
      /\ reader.to = reader.n \/ req[reader.to].lapped
      /\ \A i \in Id : client.waiting[i] # reader.to
  BY DEF HandOver, IInv, Hands, Types, Replies
<1>2. /\ UNCHANGED <<client, closing, daemon, pushing, pushes, c2s, s2c>> /\ reader' = Nothing
  BY DEF HandOver
<1>3. Closes' /\ Hands' /\ InFlight' = InFlight
  BY <1>2 DEF IInv, Closes, InFlight, Hands
<1>4. CASE req[reader.to].st = "returned"
  <2>1. req' = req
    BY <1>4 DEF HandOver
  <2> QED BY <1>2, <1>3, <2>1 DEF IInv, Waits, Held, Routed, OwnReply
<1>5. CASE req[reader.to].st # "returned"
  <2>1. /\ req'[reader.to] = [req[reader.to] EXCEPT !.got = "reply", !.by = reader.n]
        /\ \A m \in Request \ {reader.to} : req'[m] = req[m]
    BY <1>1, <1>5, HandOverType DEF IInv
  <2>2. req[reader.to] \in ReqType
    BY <1>1 DEF IInv, Types
  <2>3. /\ req'[reader.to].by = reader.n
        /\ req'[reader.to].st = req[reader.to].st /\ req'[reader.to].id = req[reader.to].id
        /\ req'[reader.to].lapped = req[reader.to].lapped
    BY <2>1, <2>2 DEF ReqType
  <2>4. client.waiting \in [Id -> Request \cup {0}]
    BY DEF IInv, Types, ClientType
  <2>5. Waits'
    <3>1. ASSUME NEW i \in Id, client.waiting[i] # 0
          PROVE  client.waiting[i] \in Request \ {reader.to}
      BY <1>1, <2>4, <3>1
    <3>2. \A m \in Request : req'[m].st = req[m].st /\ req'[m].id = req[m].id
      BY <2>1, <2>3
    <3>3. \A m \in Request : req'[m].st \in {"registered", "written"} => Held(req[m].id, m)
      BY <3>2 DEF IInv, Waits
    <3>4. \A m \in Request : req[m].id \in Id
      BY DEF IInv, Types, ReqType
    <3>5. \A m \in Request : req'[m].st \in {"registered", "written"} => Held(req[m].id, m)'
      BY <1>2, <2>1, <2>4, <3>1, <3>2, <3>3, <3>4 DEF Held
    <3>6. \A i \in Id : client'.waiting[i] # 0 =>
            LET m == client'.waiting[i]
            IN  req'[m].id = i /\ req'[m].st \in {"registered", "written"} /\ req'[m].got = "none"
      BY <1>2, <2>1, <3>1 DEF IInv, Waits
    <3> QED BY <3>5, <3>6 DEF Waits
  <2>6. OwnReply'
    BY <1>1, <2>1, <2>3 DEF IInv, OwnReply
  <2>7. Routed'
    <3>1. \A m \in Request : req'[m].lapped = req[m].lapped
      BY <2>1, <2>3
    <3>2. \A i \in Id : client'.waiting[i] \in {0, client.waiting[i]}
      BY <1>2
    <3> QED BY <1>3, <3>1, <3>2, RoutedKeeps DEF IInv
  <2> QED BY <1>3, <2>5, <2>6, <2>7
<1> QED BY <1>4, <1>5

\* teardown takes every entry at once, and closes the channels afterwards.
LEMMA TeardownKeeps ==
    ASSUME IInv, Teardown \/ CloseWaiting
    PROVE  Waits' /\ Closes' /\ Routed' /\ Hands' /\ OwnReply'
<1>1. client.waiting \in [Id -> Request \cup {0}] /\ client \in ClientType
  BY DEF IInv, Types, ClientType
<1>2. CASE Teardown
  <2>1. /\ client'.closed = TRUE /\ client'.waiting = [i \in Id |-> 0]
        /\ closing' = {client.waiting[i] : i \in Id} \ {0}
        /\ UNCHANGED <<req, reader, daemon, pushing, pushes, c2s, s2c>>
    BY <1>1, <1>2 DEF Teardown, ClientType
  <2>2. Waits'
    <3>1. \A n \in Request : req[n].id \in Id
      BY DEF IInv, Types, ReqType
    <3> QED BY <2>1, <3>1 DEF Waits, Held
  <2>3. Closes' /\ OwnReply'
    BY <2>1 DEF IInv, Closes, OwnReply
  <2>4. Routed'
    <3>1. InFlight' = InFlight
      BY <2>1 DEF InFlight
    <3> QED BY <2>1, <3>1, RoutedKeeps DEF IInv
  <2>5. Hands'
    <3>1. reader # Nothing => reader.to \in Request
      BY DEF IInv, Hands, Types, Replies
    <3> QED BY <2>1, <3>1 DEF IInv, Hands, Request
  <2> QED BY <2>2, <2>3, <2>4, <2>5
<1>3. CASE CloseWaiting
  <2>1. /\ client'.closed = client.closed /\ client'.waiting = client.waiting
        /\ closing' = {} /\ s2c' = <<>> /\ UNCHANGED <<reader, daemon, pushing, pushes, c2s>>
    BY <1>1, <1>3 DEF CloseWaiting, ClientType
  <2>2. \A n \in Request : n \notin closing => req'[n] = req[n]
    BY <1>3 DEF CloseWaiting
  <2>3. ASSUME NEW n \in Request
        PROVE  /\ req'[n].st = req[n].st /\ req'[n].id = req[n].id /\ req'[n].by = req[n].by
               /\ req'[n].got \in {req[n].got, "closed"} /\ req'[n].lapped = req[n].lapped
    <3>1. req[n] \in ReqType /\ req'[n] \in {req[n], [req[n] EXCEPT !.got = "closed"]}
      BY <1>3 DEF CloseWaiting, IInv, Types
    <3> QED BY <3>1 DEF ReqType
  <2>4. \A i \in Id : client.waiting[i] = 0
    BY <1>3 DEF CloseWaiting, IInv, Closes
  <2>5. Waits'
    <3>1. \A n \in Request : req[n].id \in Id
      BY DEF IInv, Types, ReqType
    <3> QED BY <2>1, <2>3, <2>4, <3>1 DEF Waits, Held
  <2>6. Closes' /\ OwnReply'
    BY <2>1, <2>3 DEF IInv, Closes, OwnReply
  <2>7. Routed'
    <3>1. Elements(<<>>) = {}
      BY DEF Elements
    <3>2. InFlight' \subseteq InFlight
      BY <2>1, <3>1 DEF InFlight
    <3> QED BY <2>1, <2>3, <3>2, RoutedKeeps DEF IInv
  <2>8. Hands'
    <3>1. reader # Nothing => reader.to \in Request
      BY DEF IInv, Hands, Types, Replies
    <3> QED BY <2>1, <2>2, <3>1 DEF IInv, Hands
  <2> QED BY <2>5, <2>6, <2>7, <2>8
<1> QED BY <1>2, <1>3

\* Every step keeps the invariant.
LEMMA InvStep == IInv /\ [Next]_vars => IInv'
<1> SUFFICES ASSUME IInv, [Next]_vars PROVE Waits' /\ Closes' /\ Routed' /\ Hands' /\ OwnReply'
  BY TypesStep DEF IInv
<1>0. c2s \in Seq(Requests) /\ s2c \in Seq(Replies \cup Push) /\ client \in ClientType
  BY DEF IInv, Types
<1>1. CASE Register
  BY <1>1, RegisterKeeps
<1>2. ASSUME NEW n \in Request, Write(n)
      PROVE  Waits' /\ Closes' /\ Routed' /\ Hands' /\ OwnReply'
  <2>1. CASE client' = Unregistered(req[n].id) /\ req' = Returns(n, "failed") /\ UNCHANGED c2s
    BY <1>2, <2>1, ForgetKeeps DEF Write
  <2>2. CASE \E k \in Kind :
              c2s' = Append(c2s, [type |-> "request", id |-> req[n].id, kind |-> k, n |-> n])
    <3>1. PICK k \in Kind :
              c2s' = Append(c2s, [type |-> "request", id |-> req[n].id, kind |-> k, n |-> n])
      BY <2>2
    <3> DEFINE f == [type |-> "request", id |-> req[n].id, kind |-> k, n |-> n]
    <3>2. CASE req' = [req EXCEPT ![n].st = "written"] /\ UNCHANGED client
      <4>1. f.id = req[n].id /\ f.n = n /\ c2s' = Append(c2s, f)
        BY <3>1
      <4> HIDE DEF f
      <4>2. f.id \in Id /\ Held(f.id, f.n)
        BY <1>2, <4>1 DEF IInv, Waits, Write, Types, ReqType
      <4>3. UNCHANGED <<reader, closing, daemon, s2c>>
        BY <1>2 DEF Write
      <4>4. InFlight' \subseteq InFlight \cup {f}
        BY <1>0, <4>1, <4>3, AppendElements DEF InFlight
      <4>6. \A m \in Request : /\ req'[m].id = req[m].id /\ req'[m].got = req[m].got
                               /\ req'[m].by = req[m].by /\ req'[m].lapped = req[m].lapped
                               /\ req'[m].st = IF m = n THEN "written" ELSE req[m].st
        <5>1. req \in [Request -> ReqType]
          BY DEF IInv, Types
        <5> QED BY <3>2, <5>1 DEF ReqType
      <4>7. client.waiting \in [Id -> Request \cup {0}] /\ \A m \in Request : req[m].id \in Id
        BY <1>0 DEF ClientType, IInv, Types, ReqType
      <4>5. Routed'
        <5>1. \A i \in Id : client'.waiting[i] \in {0, client.waiting[i]}
          BY <3>2
        <5> QED BY <4>2, <4>4, <4>6, <5>1, RoutedKeeps DEF IInv
      <4>8. Waits' /\ Closes' /\ OwnReply'
        <5>1. \A m \in Request : req'[m].st \in {"registered", "written"} => Held(req[m].id, m)
          BY <1>2, <4>6 DEF IInv, Waits, Write
        <5>2. \A m \in Request : req'[m].st \in {"registered", "written"} => Held(req[m].id, m)'
          BY <3>2, <4>6, <4>7, <5>1 DEF Held
        <5>3. \A i \in Id : client'.waiting[i] # 0 =>
                LET m == client'.waiting[i]
                IN  req'[m].id = i /\ req'[m].st \in {"registered", "written"} /\ req'[m].got = "none"
          BY <3>2, <4>6, <4>7 DEF IInv, Waits
        <5> QED BY <3>2, <4>3, <4>6, <5>2, <5>3 DEF IInv, Waits, Closes, OwnReply
      <4>9. Hands'
        <5>1. reader # Nothing => reader.to \in Request
          BY DEF IInv, Hands, Types, Replies
        <5> QED BY <1>2, <3>2, <4>3, <4>6, <5>1 DEF IInv, Hands, Write
      <4> QED BY <4>5, <4>8, <4>9
    <3> QED BY <1>2, <2>1, <3>2 DEF Write
  <2> QED BY <1>2, <2>1, <2>2 DEF Write
<1>3. ASSUME NEW n \in Request, Receive(n)
      PROVE  Waits' /\ Closes' /\ Routed' /\ Hands' /\ OwnReply'
  <2>1. req[n].got \in {"none", "reply", "closed", "failed"} /\ req[n].got # "none"
    BY <1>3 DEF Receive, IInv, Types, ReqType
  <2>2. /\ req'[n].st = "returned" /\ req'[n].got = req[n].got /\ req'[n].by = req[n].by
        /\ \A m \in Request \ {n} : req'[m] = req[m]
        /\ req'[n].lapped = req[n].lapped
    BY <1>3, <2>1, ReturnsType DEF Receive, IInv
  <2>3. UNCHANGED <<client, reader, closing, daemon, pushing, pushes, c2s, s2c>>
    BY <1>3 DEF Receive
  <2>4. client.waiting \in [Id -> Request \cup {0}] /\ \A i \in Id : client.waiting[i] # n
    BY <1>0, <2>1 DEF IInv, Waits, ClientType, Request
  <2>a. \A m \in Request : req[m].id \in Id /\ req'[m].lapped = req[m].lapped
    BY <2>2 DEF IInv, Types, ReqType
  <2>5. Waits'
    <3>1. \A m \in Request : req'[m].st \in {"registered", "written"} => Held(req[m].id, m)'
      BY <2>2, <2>3, <2>4, <2>a DEF IInv, Waits, Held
    <3>2. \A i \in Id : client'.waiting[i] # 0 =>
            LET m == client'.waiting[i]
            IN  req'[m].id = i /\ req'[m].st \in {"registered", "written"} /\ req'[m].got = "none"
      BY <2>2, <2>3, <2>4 DEF IInv, Waits
    <3> QED BY <3>1, <3>2 DEF Waits
  <2>6. Closes' /\ Routed' /\ OwnReply'
    <3>1. InFlight' = InFlight /\ \A i \in Id : client'.waiting[i] \in {0, client.waiting[i]}
      BY <2>3 DEF InFlight
    <3>2. Routed'
      BY <2>a, <3>1, RoutedKeeps DEF IInv
    <3> QED BY <2>2, <2>3, <2>a, <3>2 DEF IInv, Closes, OwnReply
  <2>7. Hands'
    <3>1. reader # Nothing => reader.to \in Request
      BY DEF IInv, Hands, Types, Replies
    <3> QED BY <2>2, <2>3, <2>a, <3>1 DEF IInv, Hands
  <2> QED BY <2>5, <2>6, <2>7
<1>4. ASSUME NEW n \in Request, TimeOut(n)
      PROVE  Waits' /\ Closes' /\ Routed' /\ Hands' /\ OwnReply'
  BY <1>4, ForgetKeeps DEF TimeOut
<1>5. CASE ReadPush \/ Drain
  <2>1. UNCHANGED <<req, reader, closing, daemon, c2s>>
    BY <1>5 DEF ReadPush, Drain
  <2>2. client'.waiting = client.waiting /\ client'.closed = client.closed
    BY <1>0, <1>5 DEF ReadPush, Drain, ClientType
  <2>3. s2c' = s2c \/ Elements(s2c') \subseteq Elements(s2c)
    BY <1>0, <1>5, TailElements DEF ReadPush, Drain
  <2>4. InFlight' \subseteq InFlight
    BY <2>1, <2>3 DEF InFlight
  <2> QED BY <2>1, <2>2, <2>4, TransportKeeps
<1>6. CASE ReadReply
  BY <1>6, ReadReplyKeeps
<1>7. CASE HandOver
  BY <1>7, HandOverKeeps
<1>8. CASE Teardown \/ CloseWaiting
  BY <1>8, TeardownKeeps
<1>9. CASE Dispatch
  <2> DEFINE f == Head(c2s)
  <2>1. /\ f \in Elements(c2s) /\ f \in Requests /\ Elements(Tail(c2s)) \subseteq Elements(c2s)
    BY <1>0, <1>9, TailElements DEF Dispatch
  <2>2. /\ f.type = "request" /\ f.id \in Id /\ Held(f.id, f.n)
    BY <2>1 DEF IInv, Routed, InFlight, Requests
  <2>3. /\ daemon'.serving = [type |-> "reply", id |-> f.id, n |-> f.n, to |-> 0]
        /\ c2s' = Tail(c2s) /\ UNCHANGED <<client, req, reader, closing, s2c>>
    BY <1>9 DEF Dispatch, Answer, IInv, Types
  <2> HIDE DEF f
  <2>4. daemon'.serving.id = f.id /\ daemon'.serving.n = f.n
    BY <2>3
  <2>5. \A g \in InFlight' : g \in InFlight \/ (g.id \in Id /\ Held(g.id, g.n))
    BY <2>1, <2>2, <2>3, <2>4 DEF InFlight
  <2> QED BY <2>3, <2>5, TransportKeeps
<1>10. CASE Reply
  <2>1. Elements(Append(s2c, daemon.serving)) = Elements(s2c) \cup {daemon.serving}
    BY <1>0, AppendElements
  <2>2. /\ daemon'.serving = Nothing /\ UNCHANGED <<client, req, reader, closing, c2s>>
        /\ Elements(s2c') \subseteq Elements(s2c) \cup {daemon.serving}
    BY <1>10, <2>1 DEF Reply, IInv, Types
  <2>3. \A g \in InFlight' : g \in InFlight \/ g.type \notin {"reply", "request"}
    BY <2>2 DEF InFlight, Nothing
  <2> QED BY <2>2, <2>3, TransportKeeps
<1>11. ASSUME NEW p \in Push, WritePush(p)
       PROVE  Waits' /\ Closes' /\ Routed' /\ Hands' /\ OwnReply'
  <2>1. Elements(Append(s2c, p)) = Elements(s2c) \cup {p}
    BY <1>0, AppendElements
  <2>2. /\ UNCHANGED <<client, req, reader, closing, daemon, c2s>>
        /\ Elements(s2c') \subseteq Elements(s2c) \cup {p}
    BY <1>11, <2>1 DEF WritePush
  <2>3. \A g \in InFlight' : g \in InFlight \/ g.type \notin {"reply", "request"}
    BY <2>2 DEF InFlight, Push
  <2> QED BY <2>2, <2>3, TransportKeeps
<1>12. CASE Broadcast \/ ServeEnds \/ ServerClose \/ UNCHANGED vars
  <2>1. Elements(<<>>) = {}
    BY DEF Elements
  <2>2. /\ UNCHANGED <<client, req, reader, closing, s2c>>
        /\ daemon'.serving = daemon.serving /\ (c2s' = c2s \/ c2s' = <<>>)
    BY <1>12 DEF Broadcast, ServeEnds, ServerClose, vars, IInv, Types
  <2>3. InFlight' \subseteq InFlight
    BY <2>1, <2>2 DEF InFlight
  <2> QED BY <2>2, <2>3, TransportKeeps
<1> QED
  BY <1>1, <1>2, <1>3, <1>4, <1>5, <1>6, <1>7, <1>8, <1>9, <1>10, <1>11, <1>12
  DEF Next, EndOfStream, Close

-----------------------------------------------------------------------------
\* The invariant holds in every state of the client, the pipes and the daemon.
THEOREM InvHolds == Spec => []IInv
  BY InvInit, InvStep, PTL DEF Spec

\* Every variable keeps its type, and pipes and channels their bounds: a
\* client that does not drain Incoming or PeerUpdates holds no more than their
\* capacities.
THEOREM TypeCorrect == Spec => []TypeOK
<1>1. IInv => TypeOK
  BY TypesGiveTypeOK DEF IInv
<1> QED BY <1>1, InvHolds, PTL

\* request (client.go) returns the reply to its own request and no other,
\* however many requests time out, whatever comes late, and although ids come
\* round: excepted is a caller whose id was still in use when it took it, which
\* the code (client.go, nextID) does not prevent.
THEOREM RepliesAreOwn == Spec => []OwnReply
<1>1. IInv => OwnReply
  BY DEF IInv
<1> QED BY <1>1, InvHolds, PTL

\* The channel that readLoop writes to without the lock is empty, and neither
\* teardown nor another reply has it: the read loop never blocks there and
\* never sends on a closed channel.
THEOREM ReadLoopNeverBlocks == Spec => []HandsOverSafely
<1>1. IInv => HandsOverSafely
  BY DEF IInv, Hands, HandsOverSafely
<1> QED BY <1>1, InvHolds, PTL
=============================================================================
