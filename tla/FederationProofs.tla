-------------------------- MODULE FederationProofs --------------------------
(***************************************************************************)
(* Proofs about Federation: for every number of connections, handshake     *)
(* attempts and disturbances, mux.peers holds the open connection, a closed*)
(* one only while its Close is under way, and the peer table and the       *)
(* session pumps agree.                                                    *)
(***************************************************************************)
EXTENDS Federation, TLAPS, SequenceTheorems, FiniteSetTheorems, WellFoundedInduction

-----------------------------------------------------------------------------
(* The inductive invariant.                                                *)

Types == {"hello", "ack", "complete", "policy", "data"}
Roles == {"init", "resp"}
Pcs == {"hello", "ack", "complete", "policyOut", "policyIn", "adding", "closing"}

\* A message names the attempts it belongs to; only a hello has no responder.
Messages ==
    {m \in [type : Types, a : Attempts, b : Attempts \cup {NoId}, role : Roles] :
        m.type # "hello" => m.b \in Attempts}

ConnType == [open : BOOLEAN, remote : Epochs \cup {0}, inbox : Seq(Messages)]
ConnTables == UNION {[S -> ConnType] : S \in SUBSET ConnIds}
MuxType == [conns : ConnTables, cur : ConnIds \cup {0}, accepts : Seq(ConnIds)]

\* A mux by itself: an open connection is the one in mux.peers, and what
\* waits for Accept is known.
MuxOK(mx) ==
    /\ mx \in MuxType
    /\ mx.cur \in DOMAIN mx.conns \cup {0}
    /\ \A c \in DOMAIN mx.conns :
        /\ mx.conns[c].open => c = mx.cur
        /\ Len(mx.conns[c].inbox) <= InboxSize
    /\ Len(mx.accepts) <= AcceptBacklog
    /\ \A j \in 1..Len(mx.accepts) : mx.accepts[j] \in DOMAIN mx.conns

\* A goroutine of a handshake knows its own attempt, and the peer's once the
\* peer has answered.
HandshakeOK(t) ==
    /\ t \in [kind : {"seed", "user", "resp"}, pc : Pcs, conn : ConnIds,
              a : Attempts \cup {NoId}, b : Attempts \cup {NoId}]
    /\ t.kind # "resp" \/ t.pc \notin {"hello", "closing"} => t.a \in Attempts
    /\ t.pc \notin {"hello", "closing"} /\ (t.kind = "resp" \/ t.pc # "ack") => t.b \in Attempts
TaskOK(t) == (t.kind = "pump" /\ t.pc = "recv") \/ HandshakeOK(t)

\* A goroutine on its way through a handshake, not inside Close.
UnderWay(t) == t.pc \notin {"adding", "closing"}

\* The goroutines ts that are inside Close, of a mux mx with table entry s: a
\* closed connection in mux.peers has one; what they close is closed already;
\* and only one holds the table's lock.
Inside(mx, ts, s) ==
    /\ mx.cur # 0 /\ ~mx.conns[mx.cur].open => \E t \in ts : Closes(t, s, mx.cur)
    /\ \A t \in ts : t.pc = "closing" => ~mx.conns[t.conn].open
    /\ \A t \in ts : t.pc = "adding" =>
        /\ s # NoSession /\ ~mx.conns[s.conn].open
        /\ \A u \in ts : u.pc = "adding" => u = t

\* Types of the node's state, and the connections its goroutines work on.
Typed ==
    /\ epoch \in [Node -> Epochs]
    /\ table \in [Node -> Sessions \cup {NoSession}]
    /\ budget \subseteq Disturbances
    /\ DOMAIN mux = Node /\ mux = [n \in Node |-> mux[n]]
    /\ DOMAIN tasks = Node /\ tasks = [n \in Node |-> tasks[n]]
Muxes == \A n \in Node : MuxOK(mux[n])
Working ==
    \A n \in Node : \A t \in tasks[n] : TaskOK(t) /\ t.conn \in DOMAIN mux[n].conns
Closings == \A n \in Node : Inside(mux[n], tasks[n], table[n])

\* The inductive invariant.
IInv == Typed /\ Muxes /\ Working /\ Closings /\ TableMatchesPumps

-----------------------------------------------------------------------------
(* Lemmas about the operators of a mux.                                    *)

\* What a function from connections to their state is.
LEMMA TableIn ==
    ASSUME NEW f
    PROVE  f \in ConnTables <=> DOMAIN f \subseteq ConnIds /\ f \in [DOMAIN f -> ConnType]
BY DEF ConnTables

\* A set of numbers up to a bound has a least element.
LEMMA Least ==
    ASSUME NEW N \in Nat, NEW S, S \subseteq 1..N, S # {}
    PROVE  \E x \in S : \A y \in S : x <= y
<1> DEFINE Below(i) == {x \in S : x < i}
           T == {Below(i) : i \in S}
           R == StrictSubsetOrdering(S)
<1>1. IsFiniteSet(S) /\ S \subseteq Nat
  <2>1. IsFiniteSet(1..N)
    BY FS_Interval
  <2>2. IsFiniteSet(S)
    BY <2>1, FS_Subset
  <2>3. S \subseteq Nat
    OBVIOUS
  <2> QED BY <2>2, <2>3
<1>2. IsWellFoundedOn(R, SUBSET S)
  BY <1>1, FS_StrictSubsetOrderingWellFounded, FS_FiniteSubsetsOfFinite
<1>3. T \subseteq SUBSET S /\ T # {}
  OBVIOUS
<1>4. \E t \in T : \A y \in T : ~(<<y, t>> \in R)
  <2> HIDE DEF T, R
  <2> QED BY <1>2, <1>3, WFMin
<1>5. PICK i \in S : \A y \in T : ~(<<y, Below(i)>> \in R)
  <2> HIDE DEF R
  <2> QED BY <1>4
<1>6. ASSUME NEW x \in S, x < i PROVE FALSE
  <2>1. Below(x) \in T /\ Below(x) \subseteq S /\ Below(i) \subseteq S
    OBVIOUS
  <2>2. Below(x) \subseteq Below(i)
    <3>1. \A y \in Nat : y < x => y < i
      BY <1>1, <1>6
    <3> QED BY <1>1, <3>1
  <2>3. x \in Below(i) /\ x \notin Below(x)
    BY <1>1, <1>6
  <2>4. <<Below(x), Below(i)>> \in R
    <3>1. Below(x) # Below(i)
      BY <2>3
    <3> HIDE DEF Below
    <3> QED BY <2>1, <2>2, <3>1 DEF StrictSubsetOrdering
  <2> QED BY <1>5, <2>1, <2>4
<1> QED BY <1>1, <1>6

\* No connection has the number 0.
LEMMA ZeroFree == 0 \notin ConnIds
BY BoundAssumption DEF ConnIds

\* The number of a new connection was free.
NewId(mx) == CHOOSE x \in FreeConns(mx) : \A y \in FreeConns(mx) : x <= y
LEMMA NewIdFree ==
    ASSUME NEW mx, FreeConns(mx) # {}
    PROVE  NewId(mx) \in FreeConns(mx)
<1>1. FreeConns(mx) \subseteq 1..MaxConns /\ MaxConns \in Nat
  BY BoundAssumption DEF FreeConns, ConnIds
<1>2. \E x \in FreeConns(mx) : \A y \in FreeConns(mx) : x <= y
  <2> HIDE DEF FreeConns
  <2> QED BY <1>1, Least
<1> QED BY <1>2 DEF NewId

\* The connections of old are known to new, none of them was opened again,
\* and a closed one in mux.peers was there before.
Grows(old, new) ==
    /\ DOMAIN old.conns \subseteq DOMAIN new.conns
    /\ \A c \in DOMAIN old.conns : new.conns[c].open => old.conns[c].open
    /\ new.cur # 0 /\ ~new.conns[new.cur].open
       => new.cur = old.cur /\ ~old.conns[old.cur].open

LEMMA GrowsTrans ==
    ASSUME NEW x, NEW y, NEW z, Grows(x, y), Grows(y, z)
    PROVE  Grows(x, z)
BY DEF Grows

LEMMA GrowsRefl == ASSUME NEW x PROVE Grows(x, x)
BY DEF Grows

LEMMA EmptyMuxOK == MuxOK(EmptyMux)
<1>1. DOMAIN << >> = {} /\ << >> \in ConnTables
  <2>1. << >> \in [{} -> ConnType]
    OBVIOUS
  <2> QED BY <2>1 DEF ConnTables
<1>2. << >> \in Seq(ConnIds) /\ Len(<< >>) = 0
  BY EmptySeq
<1> QED BY <1>1, <1>2, BoundAssumption DEF MuxOK, MuxType, EmptyMux

\* A mux without a connection in mux.peers has no open one.
LEMMA NoneOpen ==
    ASSUME NEW mx, MuxOK(mx), mx.cur = 0
    PROVE  \A c \in DOMAIN mx.conns : ~mx.conns[c].open
<1>1. DOMAIN mx.conns \subseteq ConnIds
  BY TableIn DEF MuxOK, MuxType
<1> QED BY <1>1, ZeroFree DEF MuxOK

\* A new connection in a mux that has no open one.
LEMMA newConnOK ==
    ASSUME NEW mx, MuxOK(mx), \A c \in DOMAIN mx.conns : ~mx.conns[c].open,
           FreeConns(mx) # {}, NEW e \in Epochs \cup {0}
    PROVE  LET r == newConn(mx, e) IN
           /\ MuxOK(r) /\ Grows(mx, r)
           /\ r.cur \in FreeConns(mx) /\ r.cur \in DOMAIN r.conns
           /\ r.conns[r.cur].remote = e /\ r.conns[r.cur].inbox = << >> /\ r.conns[r.cur].open
           /\ DOMAIN r.conns = DOMAIN mx.conns \cup {r.cur}
<1> DEFINE c == NewId(mx)
           new == [open |-> TRUE, remote |-> e, inbox |-> << >>]
           cs == [x \in DOMAIN mx.conns \cup {c} |-> IF x = c THEN new ELSE mx.conns[x]]
           r == newConn(mx, e)
<1>1. c \in ConnIds /\ c \notin DOMAIN mx.conns /\ c # 0 /\ c \in FreeConns(mx)
  BY NewIdFree, ZeroFree DEF FreeConns
<1>2. r = [mx EXCEPT !.cur = c, !.conns = cs]
  BY DEF newConn, NewId
<1>3. new \in ConnType /\ new.open = TRUE /\ new.remote = e /\ new.inbox = << >> /\ Len(new.inbox) = 0
  BY EmptySeq DEF ConnType
<1>4. mx \in MuxType /\ DOMAIN mx.conns \subseteq ConnIds /\ mx.conns \in [DOMAIN mx.conns -> ConnType]
  BY TableIn DEF MuxOK, MuxType
<1> HIDE DEF c, new
<1>5. cs \in ConnTables /\ DOMAIN cs = DOMAIN mx.conns \cup {c}
  <2>1. cs \in [DOMAIN mx.conns \cup {c} -> ConnType]
    BY <1>1, <1>3, <1>4
  <2> QED BY <1>1, <1>4, <2>1, TableIn
<1>6. /\ cs[c] = new
      /\ \A x \in DOMAIN mx.conns : cs[x] = mx.conns[x]
  BY <1>1
<1> HIDE DEF cs
<1>7. r \in MuxType /\ r.cur = c /\ r.conns = cs /\ r.accepts = mx.accepts
  BY <1>1, <1>2, <1>4, <1>5 DEF MuxType
<1> HIDE DEF r
<1>8. \A x \in DOMAIN cs : (cs[x].open => x = c) /\ Len(cs[x].inbox) <= InboxSize
  <2>1. 0 <= InboxSize
    BY BoundAssumption
  <2>2. (cs[c].open => c = c) /\ Len(cs[c].inbox) <= InboxSize
    BY <1>3, <1>6, <2>1
  <2>3. ASSUME NEW x \in DOMAIN mx.conns
        PROVE  (cs[x].open => x = c) /\ Len(cs[x].inbox) <= InboxSize
    BY <1>6 DEF MuxOK
  <2> QED BY <1>5, <2>2, <2>3
<1>9. MuxOK(r)
  BY <1>5, <1>7, <1>8 DEF MuxOK
<1>10. Grows(mx, r)
  BY <1>3, <1>5, <1>6, <1>7 DEF Grows
<1> QED BY <1>1, <1>3, <1>5, <1>6, <1>7, <1>9, <1>10 DEF r

\* The first half of muxConn.Close: the connection is closed where it is.
LEMMA closeChannelOK ==
    ASSUME NEW mx, MuxOK(mx), NEW c \in DOMAIN mx.conns
    PROVE  LET r == closeChannel(mx, c) IN
           /\ MuxOK(r) /\ r.cur = mx.cur
           /\ DOMAIN r.conns = DOMAIN mx.conns
           /\ ~r.conns[c].open
           /\ \A x \in DOMAIN mx.conns : x # c => r.conns[x] = mx.conns[x]
<1> DEFINE new == [mx.conns[c] EXCEPT !.open = FALSE]
           cs == [mx.conns EXCEPT ![c] = new]
           r == closeChannel(mx, c)
<1>1. mx \in MuxType /\ DOMAIN mx.conns \subseteq ConnIds /\ mx.conns \in [DOMAIN mx.conns -> ConnType]
  BY TableIn DEF MuxOK, MuxType
<1>2. new \in ConnType /\ new.open = FALSE /\ new.inbox = mx.conns[c].inbox
  BY <1>1 DEF ConnType
<1>3. r = [mx EXCEPT !.conns = cs]
  BY <1>1 DEF closeChannel, MuxType
<1> HIDE DEF new
<1>4. cs \in ConnTables /\ DOMAIN cs = DOMAIN mx.conns
  <2>1. cs \in [DOMAIN mx.conns -> ConnType]
    BY <1>1, <1>2
  <2> QED BY <1>1, <2>1, TableIn
<1>5. cs[c] = new /\ \A x \in DOMAIN mx.conns : x # c => cs[x] = mx.conns[x]
  BY <1>1
<1> HIDE DEF cs
<1>6. r \in MuxType /\ r.cur = mx.cur /\ r.conns = cs /\ r.accepts = mx.accepts
  BY <1>1, <1>3, <1>4 DEF MuxType
<1> HIDE DEF r
<1>7. \A x \in DOMAIN cs : (cs[x].open => x = mx.cur) /\ Len(cs[x].inbox) <= InboxSize
  BY <1>2, <1>4, <1>5 DEF MuxOK
<1>8. MuxOK(r)
  BY <1>4, <1>6, <1>7 DEF MuxOK
<1> QED BY <1>2, <1>4, <1>5, <1>6, <1>8 DEF r

\* The second half: a closed connection leaves mux.peers.
LEMMA removeConnOK ==
    ASSUME NEW mx, MuxOK(mx), NEW c \in DOMAIN mx.conns, ~mx.conns[c].open
    PROVE  LET r == removeConn(mx, c) IN
           /\ MuxOK(r) /\ Grows(mx, r) /\ r.cur # c
           /\ r.conns = mx.conns
<1> DEFINE k == IF mx.cur = c THEN 0 ELSE mx.cur
           r == removeConn(mx, c)
<1>1. mx \in MuxType /\ DOMAIN mx.conns \subseteq ConnIds
  BY TableIn DEF MuxOK, MuxType
<1>2. k \in ConnIds \cup {0} /\ k \in DOMAIN mx.conns \cup {0} /\ k # c
  BY <1>1, ZeroFree DEF MuxOK, MuxType
<1>3. \A x \in DOMAIN mx.conns : mx.conns[x].open => x = k
  BY DEF MuxOK
<1>4. k # 0 => k = mx.cur
  OBVIOUS
<1>5. r = [mx EXCEPT !.cur = k]
  BY <1>1 DEF removeConn, MuxType
<1> HIDE DEF k
<1>6. r \in MuxType /\ r.cur = k /\ r.conns = mx.conns /\ r.accepts = mx.accepts
  BY <1>1, <1>2, <1>5 DEF MuxType
<1> HIDE DEF r
<1>7. MuxOK(r) /\ Grows(mx, r)
  BY <1>2, <1>3, <1>4, <1>6 DEF MuxOK, Grows
<1> QED BY <1>2, <1>6, <1>7 DEF r

\* A connection in mux.peers is offered to Accept, or not.
LEMMA surfaceOK ==
    ASSUME NEW mx, MuxOK(mx), mx.cur # 0
    PROVE  LET r == surface(mx) IN
           MuxOK(r) /\ r.conns = mx.conns /\ r.cur = mx.cur
<1> DEFINE as == Append(mx.accepts, mx.cur)
           r == surface(mx)
<1>1. CASE ~(Len(mx.accepts) < AcceptBacklog)
  BY <1>1 DEF surface
<1>2. CASE Len(mx.accepts) < AcceptBacklog
  <2>1. mx \in MuxType /\ mx.cur \in ConnIds /\ mx.cur \in DOMAIN mx.conns /\ mx.accepts \in Seq(ConnIds)
    BY DEF MuxOK, MuxType
  <2>2. r = [mx EXCEPT !.accepts = as]
    BY <1>2 DEF surface
  <2>3. /\ as \in Seq(ConnIds) /\ Len(as) = Len(mx.accepts) + 1
        /\ \A i \in 1..Len(mx.accepts) : as[i] = mx.accepts[i]
        /\ as[Len(mx.accepts) + 1] = mx.cur
    BY <2>1, AppendProperties
  <2> HIDE DEF as
  <2>4. r \in MuxType /\ r.cur = mx.cur /\ r.conns = mx.conns /\ r.accepts = as
    BY <2>1, <2>2, <2>3 DEF MuxType
  <2> HIDE DEF r
  <2>5. Len(mx.accepts) \in Nat /\ AcceptBacklog \in Nat
    BY <2>1, LenProperties, BoundAssumption
  <2>6. Len(as) <= AcceptBacklog
    BY <1>2, <2>3, <2>5
  <2>7. \A j \in 1..Len(as) : as[j] \in DOMAIN mx.conns
    <3>1. \A j \in 1..Len(as) : j \in 1..Len(mx.accepts) \/ j = Len(mx.accepts) + 1
      BY <2>3, <2>5
    <3>2. \A j \in 1..Len(mx.accepts) : mx.accepts[j] \in DOMAIN mx.conns
      BY DEF MuxOK
    <3> QED BY <2>1, <2>3, <3>1, <3>2
  <2>8. MuxOK(r)
    BY <2>4, <2>6, <2>7 DEF MuxOK
  <2> QED BY <2>4, <2>8 DEF r
<1> QED BY <1>1, <1>2

\* A connection changes its remote epoch or its inbox.
LEMMA setConnOK ==
    ASSUME NEW mx, MuxOK(mx), NEW c \in DOMAIN mx.conns, NEW new \in ConnType,
           new.open = mx.conns[c].open, Len(new.inbox) <= InboxSize
    PROVE  LET r == [mx EXCEPT !.conns = [mx.conns EXCEPT ![c] = new]] IN
           /\ MuxOK(r) /\ Grows(mx, r)
           /\ r.cur = mx.cur /\ DOMAIN r.conns = DOMAIN mx.conns
           /\ r.conns[c] = new
<1> DEFINE cs == [mx.conns EXCEPT ![c] = new]
           r == [mx EXCEPT !.conns = cs]
<1>1. mx \in MuxType /\ DOMAIN mx.conns \subseteq ConnIds /\ mx.conns \in [DOMAIN mx.conns -> ConnType]
  BY TableIn DEF MuxOK, MuxType
<1>2. cs \in ConnTables /\ DOMAIN cs = DOMAIN mx.conns
  <2>1. cs \in [DOMAIN mx.conns -> ConnType]
    BY <1>1
  <2> QED BY <1>1, <2>1, TableIn
<1>3. cs[c] = new /\ \A x \in DOMAIN mx.conns : x # c => cs[x] = mx.conns[x]
  BY <1>1
<1> HIDE DEF cs
<1>4. r \in MuxType /\ r.cur = mx.cur /\ r.conns = cs /\ r.accepts = mx.accepts
  BY <1>1, <1>2 DEF MuxType
<1>5. \A x \in DOMAIN cs : (cs[x].open => x = mx.cur) /\ Len(cs[x].inbox) <= InboxSize
  BY <1>2, <1>3 DEF MuxOK
<1> HIDE DEF r
<1>6. MuxOK(r)
  BY <1>2, <1>4, <1>5 DEF MuxOK
<1>7. Grows(mx, r)
  <2>1. mx.cur # 0 => mx.cur \in DOMAIN mx.conns
    BY DEF MuxOK
  <2> QED BY <1>2, <1>3, <1>4, <2>1 DEF Grows
<1> QED BY <1>2, <1>3, <1>4, <1>6, <1>7 DEF r, cs

\* A frame has somewhere to go: to the connection in mux.peers, or to a new
\* one there is room for.
RoomFor(mx, e) ==
    \/ FreeConns(mx) # {}
    \/ mx.cur # 0 /\ mx.conns[mx.cur].remote \in {0, e}

\* What readLoop does with a frame before it looks at its type.
LEMMA readFrameOK ==
    ASSUME NEW mx, MuxOK(mx), NEW e \in Epochs, RoomFor(mx, e)
    PROVE  LET r == readFrame(mx, e) IN
           MuxOK(r) /\ Grows(mx, r) /\ r.cur \in DOMAIN r.conns /\ r.cur # 0
<1> DEFINE r == readFrame(mx, e)
<1>1. CASE mx.cur = 0
  <2> DEFINE x == newConn(mx, e)
  <2>1. MuxOK(x) /\ Grows(mx, x) /\ x.cur \in FreeConns(mx) /\ x.cur \in DOMAIN x.conns
    BY <1>1, NoneOpen, newConnOK DEF RoomFor
  <2>2. x.cur # 0
    BY <2>1, ZeroFree DEF FreeConns
  <2>3. r = surface(x)
    BY <1>1 DEF readFrame
  <2> HIDE DEF x
  <2>4. MuxOK(r) /\ r.conns = x.conns /\ r.cur = x.cur
    BY <2>1, <2>2, <2>3, surfaceOK
  <2> HIDE DEF r
  <2> QED BY <2>1, <2>2, <2>4 DEF r, Grows
<1>2. CASE mx.cur # 0 /\ conn(mx, mx.cur).remote \notin {0, e}
  <2> DEFINE y == closeChannel(mx, mx.cur)
             x == newConn(y, e)
  <2>0. mx.cur \in DOMAIN mx.conns
    BY <1>2 DEF MuxOK
  <2>1. /\ MuxOK(y) /\ y.cur = mx.cur /\ DOMAIN y.conns = DOMAIN mx.conns
        /\ ~y.conns[mx.cur].open
    BY <2>0, closeChannelOK
  <2>2. FreeConns(y) # {} /\ \A c \in DOMAIN y.conns : ~y.conns[c].open
    BY <1>2, <2>1 DEF RoomFor, FreeConns, conn, MuxOK
  <2> HIDE DEF y
  <2>3. /\ MuxOK(x) /\ Grows(y, x) /\ x.cur \in FreeConns(y) /\ x.cur \in DOMAIN x.conns
        /\ x.conns[x.cur].open
    BY <2>1, <2>2, newConnOK
  <2>4. x.cur # 0 /\ Grows(mx, x)
    BY <2>1, <2>2, <2>3, ZeroFree DEF FreeConns, Grows
  <2>5. r = surface(x)
    BY <1>2 DEF readFrame, y
  <2> HIDE DEF x
  <2>6. MuxOK(r) /\ r.conns = x.conns /\ r.cur = x.cur
    BY <2>3, <2>4, <2>5, surfaceOK
  <2> HIDE DEF r
  <2> QED BY <2>3, <2>4, <2>6 DEF r, Grows
<1>3. CASE mx.cur # 0 /\ conn(mx, mx.cur).remote \in {0, e}
  <2> DEFINE c == mx.cur
             new == [mx.conns[c] EXCEPT !.remote = e]
  <2>1. c \in DOMAIN mx.conns
    BY <1>3 DEF MuxOK
  <2>2. mx \in MuxType /\ mx.conns \in [DOMAIN mx.conns -> ConnType]
    BY TableIn DEF MuxOK, MuxType
  <2>3. r = [mx EXCEPT !.conns = [mx.conns EXCEPT ![c] = new]]
    BY <1>3, <2>1, <2>2 DEF readFrame, MuxType
  <2>4. new \in ConnType /\ new.open = mx.conns[c].open /\ new.inbox = mx.conns[c].inbox
    BY <2>1, <2>2 DEF ConnType
  <2>5. Len(new.inbox) <= InboxSize
    BY <2>1, <2>4 DEF MuxOK
  <2> HIDE DEF new, c
  <2>6. MuxOK(r) /\ Grows(mx, r) /\ r.cur = mx.cur /\ DOMAIN r.conns = DOMAIN mx.conns
    BY <2>1, <2>3, <2>4, <2>5, setConnOK
  <2> QED BY <1>3, <2>1, <2>6 DEF c
<1> QED BY <1>1, <1>2, <1>3

\* ... and with a message that the frame completes.
LEMMA readDataOK ==
    ASSUME NEW mx, MuxOK(mx), NEW e \in Epochs, RoomFor(mx, e), NEW m \in Messages
    PROVE  MuxOK(readData(mx, e, m)) /\ Grows(mx, readData(mx, e, m))
<1> DEFINE r == readFrame(mx, e)
<1>1. MuxOK(r) /\ Grows(mx, r) /\ r.cur \in DOMAIN r.conns
  BY readFrameOK
<1>2. CASE ~hasRoom(mx, e)
  BY <1>1, <1>2 DEF readData
<1>3. CASE hasRoom(mx, e)
  <2> DEFINE c == r.cur
             ib == Append(r.conns[c].inbox, m)
  <2>1. Len(r.conns[c].inbox) < InboxSize
    BY <1>3 DEF hasRoom, conn
  <2>2. readData(mx, e, m) = [r EXCEPT !.conns[r.cur].inbox = Append(@, m)]
    BY <1>3 DEF readData
  <2> HIDE DEF r
  <2>3. r \in MuxType /\ r.conns \in [DOMAIN r.conns -> ConnType] /\ r.conns[c] \in ConnType
    BY <1>1, TableIn DEF MuxOK, MuxType
  <2>4. r.conns[c].inbox \in Seq(Messages)
    BY <2>3 DEF ConnType
  <2>5. ib \in Seq(Messages) /\ Len(ib) = Len(r.conns[c].inbox) + 1
    BY <2>4, AppendProperties
  <2>6. Len(ib) <= InboxSize
    <3>1. Len(r.conns[c].inbox) \in Nat /\ InboxSize \in Nat
      BY <2>4, LenProperties, BoundAssumption
    <3> QED BY <2>1, <2>5, <3>1
  <2> HIDE DEF Messages
  <2>7. readData(mx, e, m) = [r EXCEPT !.conns = [r.conns EXCEPT ![c] = [r.conns[c] EXCEPT !.inbox = ib]]]
    BY <1>1, <2>2, <2>3 DEF MuxType, ConnType
  <2> HIDE DEF ib, c
  <2> DEFINE nw == [r.conns[c] EXCEPT !.inbox = ib]
  <2>8. nw \in ConnType /\ nw.open = r.conns[c].open /\ nw.inbox = ib
    BY <2>3, <2>5 DEF ConnType
  <2>9. c \in DOMAIN r.conns
    BY <1>1 DEF c
  <2>10. readData(mx, e, m) = [r EXCEPT !.conns = [r.conns EXCEPT ![c] = nw]]
    BY <2>7
  <2>11. Len(nw.inbox) <= InboxSize
    BY <2>6, <2>8
  <2> HIDE DEF nw
  <2>12. MuxOK(readData(mx, e, m)) /\ Grows(r, readData(mx, e, m))
    BY <1>1, <2>8, <2>9, <2>10, <2>11, setConnOK
  <2> QED BY <1>1, <2>12, GrowsTrans
<1> QED BY <1>2, <1>3

\* A goroutine takes the next message from its connection's inbox.
LEMMA takeOK ==
    ASSUME IInv, NEW n \in Node, NEW t \in tasks[n], inbox(n, t) # << >>
    PROVE  /\ Head(inbox(n, t)) \in Messages
           /\ MuxOK(take(n, t)) /\ Grows(mux[n], take(n, t))
<1> DEFINE mx == mux[n]
           c == t.conn
           q == mx.conns[c].inbox
           ib == Tail(q)
           nw == [mx.conns[c] EXCEPT !.inbox = ib]
<1>1. MuxOK(mx) /\ c \in DOMAIN mx.conns /\ Len(q) <= InboxSize
  BY DEF IInv, Muxes, Working, MuxOK
<1>2. mx \in MuxType /\ mx.conns \in [DOMAIN mx.conns -> ConnType] /\ mx.conns[c] \in ConnType
  BY <1>1, TableIn DEF MuxOK, MuxType
<1>3. q \in Seq(Messages) /\ q # << >> /\ q = inbox(n, t)
  BY <1>2 DEF ConnType, inbox, conn
<1>4. Head(q) \in Messages /\ ib \in Seq(Messages) /\ Len(ib) = Len(q) - 1
  BY <1>3, HeadTailProperties
<1>5. Len(ib) <= InboxSize
  <2>1. Len(q) \in Nat /\ InboxSize \in Nat
    BY <1>3, LenProperties, BoundAssumption
  <2> QED BY <1>1, <1>4, <2>1
<1>6. take(n, t) = [mx EXCEPT !.conns = [mx.conns EXCEPT ![c] = nw]]
  BY <1>1, <1>2 DEF take, MuxType, ConnType
<1> HIDE DEF mx, c, ib
<1>7. nw \in ConnType /\ nw.open = mx.conns[c].open /\ nw.inbox = ib
  BY <1>2, <1>4 DEF ConnType
<1>8. Len(nw.inbox) <= InboxSize
  BY <1>5, <1>7
<1> HIDE DEF nw
<1>9. MuxOK(take(n, t)) /\ Grows(mx, take(n, t))
  BY <1>1, <1>6, <1>7, <1>8, setConnOK
<1> QED BY <1>3, <1>4, <1>9 DEF mx

\* Garbage collection takes no connection that a goroutine works on.
LEMMA tidyOK ==
    ASSUME NEW mx, MuxOK(mx), NEW ts, \A t \in ts : t.conn \in DOMAIN mx.conns
    PROVE  LET r == tidy(mx, ts) IN
           /\ MuxOK(r) /\ r.cur = mx.cur
           /\ mx.cur # 0 => r.conns[mx.cur] = mx.conns[mx.cur]
           /\ \A t \in ts : t.conn \in DOMAIN r.conns /\ r.conns[t.conn] = mx.conns[t.conn]
<1> DEFINE kept == {c \in DOMAIN mx.conns :
                       \/ mx.conns[c].open \/ c = mx.cur
                       \/ \E t \in ts : t.conn = c
                       \/ \E j \in 1..Len(mx.accepts) : mx.accepts[j] = c}
           cs == [c \in kept |-> mx.conns[c]]
           r == tidy(mx, ts)
<1>1. r = [mx EXCEPT !.conns = cs]
  BY DEF tidy
<1>2. mx \in MuxType /\ DOMAIN mx.conns \subseteq ConnIds /\ mx.conns \in [DOMAIN mx.conns -> ConnType]
  BY TableIn DEF MuxOK, MuxType
<1>3. /\ kept \subseteq DOMAIN mx.conns
      /\ \A t \in ts : t.conn \in kept
      /\ \A j \in 1..Len(mx.accepts) : mx.accepts[j] \in kept
      /\ mx.cur # 0 => mx.cur \in kept
  BY DEF MuxOK
<1> HIDE DEF kept
<1>4. cs \in ConnTables /\ DOMAIN cs = kept /\ \A c \in kept : cs[c] = mx.conns[c]
  <2>1. cs \in [kept -> ConnType]
    BY <1>2, <1>3
  <2> QED BY <1>2, <1>3, <2>1, TableIn
<1> HIDE DEF cs
<1>5. r \in MuxType /\ r.cur = mx.cur /\ r.conns = cs /\ r.accepts = mx.accepts
  BY <1>1, <1>2, <1>4 DEF MuxType
<1> HIDE DEF r
<1>6. MuxOK(r)
  BY <1>3, <1>4, <1>5 DEF MuxOK
<1> QED BY <1>3, <1>4, <1>5, <1>6 DEF r

\* A fresh name is one of the attempts'.
LEMMA freshOK ==
    ASSUME NEW n \in Node, HasFresh(n)
    PROVE  fresh(n) \in Attempts
<1> DEFINE free == {i \in 1..MaxIds : <<n, i>> \notin used(n)}
           f == CHOOSE i \in free : \A j \in free : i <= j
<1>1. free \subseteq 1..MaxIds /\ free # {} /\ MaxIds \in Nat
  BY BoundAssumption DEF HasFresh
<1>2. fresh(n) = <<n, f>>
  BY DEF fresh
<1> HIDE DEF free
<1>3. \E i \in free : \A j \in free : i <= j
  BY <1>1, Least
<1>4. f \in free
  BY <1>3
<1> HIDE DEF f
<1> QED BY <1>1, <1>2, <1>4 DEF Attempts

\* The two nodes are each other's peers.
LEMMA Peers ==
    ASSUME NEW n \in Node
    PROVE  Peer(n) \in Node /\ Peer(n) # n /\ \A m \in Node : m = n \/ m = Peer(n)
BY NodeAssumption DEF Node, Peer

LEMMA SessionIsOne ==
    ASSUME NEW c, NEW a, NEW b, NEW role
    PROVE  Session(c, a, b, role) # NoSession
<1>1. DOMAIN Session(c, a, b, role) = {"conn", "a", "b", "role"}
  BY DEF Session
<1>2. DOMAIN NoSession = {}
  BY DEF NoSession
<1> QED BY <1>1, <1>2

-----------------------------------------------------------------------------
(* Steps: every action ends in become.                                     *)

\* The rest of the state keeps its types, and the peer its entry.
Frames(n) ==
    /\ epoch' \in [Node -> Epochs]
    /\ table' \in [Node -> Sessions \cup {NoSession}]
    /\ table'[Peer(n)] = table[Peer(n)]
    /\ budget' \subseteq Disturbances

\* A step of node n keeps the invariant if the muxes it computes are sound and
\* its goroutines agree with its entry of the peer table.
LEMMA BecomeKeeps ==
    ASSUME IInv, NEW n \in Node, NEW mine, NEW theirs, NEW ts,
           become(n, mine, theirs, ts), Frames(n),
           MuxOK(mine), MuxOK(theirs), Grows(mux[Peer(n)], theirs),
           \A t \in ts : TaskOK(t) /\ t.conn \in DOMAIN mine.conns,
           Inside(mine, ts, table'[n]),
           table'[n] # NoSession => Pump(table'[n]) \in ts,
           \A t \in ts : t.kind = "pump" /\ mine.conns[t.conn].open
                         => table'[n] = Session(t.conn, t.a, t.b, t.role)
    PROVE  IInv'
<1> DEFINE p == Peer(n)
           m1 == tidy(mine, ts)
           m2 == tidy(theirs, tasks[p])
<1>1. p \in Node /\ p # n /\ \A m \in Node : m = n \/ m = p
  BY Peers
<1>2. /\ tasks' = [tasks EXCEPT ![n] = ts]
      /\ mux' = [mux EXCEPT ![n] = m1, ![p] = m2]
  BY DEF become
<1>3. \A t \in tasks[p] : TaskOK(t) /\ t.conn \in DOMAIN mux[p].conns /\ t.conn \in DOMAIN theirs.conns
  BY <1>1 DEF IInv, Working, Grows
<1>4. /\ MuxOK(m1) /\ m1.cur = mine.cur
      /\ mine.cur # 0 => m1.conns[mine.cur] = mine.conns[mine.cur]
      /\ \A t \in ts : t.conn \in DOMAIN m1.conns /\ m1.conns[t.conn] = mine.conns[t.conn]
  BY tidyOK
<1>5. /\ MuxOK(m2) /\ m2.cur = theirs.cur
      /\ theirs.cur # 0 => m2.conns[theirs.cur] = theirs.conns[theirs.cur]
      /\ \A t \in tasks[p] : t.conn \in DOMAIN m2.conns /\ m2.conns[t.conn] = theirs.conns[t.conn]
  BY <1>3, tidyOK
<1> HIDE DEF p, m1, m2
<1>6. DOMAIN mux = Node /\ DOMAIN tasks = Node
  BY DEF IInv, Typed
<1>7. /\ DOMAIN mux' = Node /\ mux' = [m \in Node |-> mux'[m]]
      /\ mux'[n] = m1 /\ mux'[p] = m2
  BY <1>1, <1>2, <1>6
<1>8. /\ DOMAIN tasks' = Node /\ tasks' = [m \in Node |-> tasks'[m]]
      /\ tasks'[n] = ts /\ tasks'[p] = tasks[p]
  BY <1>1, <1>2, <1>6
<1>9. Typed'
  BY <1>7, <1>8 DEF Frames, Typed
<1>10. Muxes'
  BY <1>1, <1>4, <1>5, <1>7 DEF Muxes
<1>11. Working'
  BY <1>1, <1>3, <1>4, <1>5, <1>7, <1>8 DEF Working
<1>12. TableMatchesPumps'
  <2>1. /\ table'[n] # NoSession => Pump(table'[n]) \in tasks'[n]
        /\ \A t \in tasks'[n] : t.kind = "pump" /\ mux'[n].conns[t.conn].open
            => table'[n] = Session(t.conn, t.a, t.b, t.role)
    BY <1>4, <1>7, <1>8
  <2>2. table'[p] = table[p]
    BY DEF Frames, p
  <2>3. /\ table[p] # NoSession => Pump(table[p]) \in tasks[p]
        /\ \A t \in tasks[p] : t.kind = "pump" /\ mux[p].conns[t.conn].open
            => table[p] = Session(t.conn, t.a, t.b, t.role)
    BY <1>1 DEF IInv, TableMatchesPumps, IsOpen
  <2>4. \A t \in tasks[p] : mux'[p].conns[t.conn].open => mux[p].conns[t.conn].open
    BY <1>3, <1>5, <1>7 DEF Grows, p
  <2>5. /\ table'[p] # NoSession => Pump(table'[p]) \in tasks'[p]
        /\ \A t \in tasks'[p] : t.kind = "pump" /\ mux'[p].conns[t.conn].open
            => table'[p] = Session(t.conn, t.a, t.b, t.role)
    BY <1>8, <2>2, <2>3, <2>4
  <2> QED BY <1>1, <2>1, <2>5 DEF TableMatchesPumps, IsOpen
<1>13. Closings'
  <2>1. Inside(mux'[n], tasks'[n], table'[n])
    <3>1. table'[n] # NoSession => mux'[n].conns[table'[n].conn] = mine.conns[table'[n].conn]
      BY <1>4, <1>7 DEF Pump
    <3> QED BY <1>4, <1>7, <1>8, <3>1 DEF Inside
  <2>2. table'[p] = table[p]
    BY DEF Frames, p
  <2>3. Inside(mux[p], tasks[p], table[p]) /\ (table[p] # NoSession => Pump(table[p]) \in tasks[p])
    BY <1>1 DEF IInv, Closings, TableMatchesPumps
  <2>4. \A t \in tasks[p] : mux'[p].conns[t.conn].open => mux[p].conns[t.conn].open
    BY <1>3, <1>5, <1>7 DEF Grows, p
  <2>5. table[p] # NoSession => (mux'[p].conns[table[p].conn].open => mux[p].conns[table[p].conn].open)
    BY <2>3, <2>4 DEF Pump
  <2>6. mux'[p].cur # 0 /\ ~mux'[p].conns[mux'[p].cur].open
        => mux[p].cur = mux'[p].cur /\ ~mux[p].conns[mux[p].cur].open
    BY <1>5, <1>7 DEF Grows, p
  <2>7. mux'[p].cur # 0 /\ ~mux'[p].conns[mux'[p].cur].open
        => \E t \in tasks[p] : Closes(t, table[p], mux'[p].cur)
    BY <2>3, <2>6 DEF Inside
  <2>8. Inside(mux'[p], tasks'[p], table'[p])
    BY <1>8, <2>2, <2>3, <2>4, <2>5, <2>7 DEF Inside
  <2> QED BY <1>1, <2>1, <2>8 DEF Closings
<1> QED BY <1>9, <1>10, <1>11, <1>12, <1>13 DEF IInv

\* What is closed stays closed for the goroutines and for the table's entry.
ClosedStay(n, mine) ==
    /\ \A t \in tasks[n] : mine.conns[t.conn].open => mux[n].conns[t.conn].open
    /\ table[n] # NoSession
       => (mine.conns[table[n].conn].open => mux[n].conns[table[n].conn].open)

\* The connection of the table's entry is known.
LEMMA EntryKnown ==
    ASSUME IInv, NEW n \in Node, table[n] # NoSession
    PROVE  table[n].conn \in DOMAIN mux[n].conns
<1>1. Pump(table[n]) \in tasks[n] /\ Pump(table[n]).conn = table[n].conn
  BY DEF IInv, TableMatchesPumps, Pump
<1> QED BY <1>1 DEF IInv, Working

LEMMA ClosedStays ==
    ASSUME IInv, NEW n \in Node, NEW mine, Grows(mux[n], mine)
    PROVE  ClosedStay(n, mine)
<1>1. \A t \in tasks[n] : t.conn \in DOMAIN mux[n].conns
  BY DEF IInv, Working
<1> QED BY <1>1, EntryKnown DEF Grows, ClosedStay

\* ... in particular if it leaves the table, the pumps and what is inside
\* Close alone.
LEMMA HandshakeKeeps ==
    ASSUME IInv, NEW n \in Node, NEW mine, NEW theirs, NEW ts,
           become(n, mine, theirs, ts),
           UNCHANGED <<epoch, table>>, budget' \subseteq budget,
           MuxOK(mine), Grows(mux[n], mine),
           MuxOK(theirs), Grows(mux[Peer(n)], theirs),
           \A t \in ts : t \in tasks[n]
                         \/ (HandshakeOK(t) /\ UnderWay(t) /\ t.conn \in DOMAIN mine.conns),
           \A t \in tasks[n] : t.kind = "pump" \/ ~UnderWay(t) => t \in ts
    PROVE  IInv'
<1>1. Frames(n)
  BY Peers DEF Frames, IInv, Typed
<1>2. \A t \in ts : TaskOK(t) /\ t.conn \in DOMAIN mine.conns
  BY DEF IInv, Working, TaskOK, Grows
<1>3. table'[n] # NoSession => Pump(table'[n]) \in ts
  BY DEF IInv, TableMatchesPumps, Pump
<1>4. \A t \in ts : t.kind = "pump" /\ mine.conns[t.conn].open
                    => table'[n] = Session(t.conn, t.a, t.b, t.role)
  <2> SUFFICES ASSUME NEW t \in ts, t.kind = "pump", mine.conns[t.conn].open
               PROVE  table[n] = Session(t.conn, t.a, t.b, t.role)
    OBVIOUS
  <2>1. t \in tasks[n]
    BY DEF HandshakeOK
  <2>2. mux[n].conns[t.conn].open
    BY <2>1 DEF Grows, IInv, Working
  <2> QED BY <2>1, <2>2 DEF IInv, TableMatchesPumps, IsOpen
<1>5. Inside(mine, ts, table'[n])
  <2>1. Inside(mux[n], tasks[n], table[n]) /\ (table[n] # NoSession => Pump(table[n]) \in tasks[n])
    BY DEF IInv, Closings, TableMatchesPumps
  <2>2. ClosedStay(n, mine)
    BY ClosedStays
  <2>3. mine.cur # 0 /\ ~mine.conns[mine.cur].open => \E t \in ts : Closes(t, table[n], mine.cur)
    <3>1. ASSUME mine.cur # 0, ~mine.conns[mine.cur].open
          PROVE  \E t \in tasks[n] : Closes(t, table[n], mine.cur)
      BY <2>1, <3>1 DEF Grows, Inside
    <3>2. \A t \in tasks[n] : Closes(t, table[n], mine.cur) => t \in ts
      BY DEF Closes, UnderWay
    <3> QED BY <3>1, <3>2
  <2>4. \A t \in ts : ~UnderWay(t) => t \in tasks[n]
    OBVIOUS
  <2> QED BY <2>1, <2>2, <2>3, <2>4 DEF Inside, UnderWay, ClosedStay
<1> QED BY <1>1, <1>2, <1>3, <1>4, <1>5, BecomeKeeps

\* What closing the channel of connection c adds: one goroutine that was under
\* way is now inside Close.
LEMMA CloseKeeps ==
    ASSUME IInv, NEW n \in Node, NEW t \in tasks[n], HandshakeOK(t), UnderWay(t),
           NEW mine, NEW theirs, NEW c \in DOMAIN mine.conns, NEW t2, NEW ts,
           ts = (tasks[n] \ {t}) \cup {t2} \/ (ts = tasks[n] \ {t} /\ mine.cur # c),
           become(n, closeChannel(mine, c), theirs, ts),
           UNCHANGED <<epoch, table>>, budget' \subseteq budget,
           MuxOK(mine), Grows(mux[n], mine),
           MuxOK(theirs), Grows(mux[Peer(n)], theirs),
           HandshakeOK(t2), t2.conn = t.conn,
           \/ t2.pc = "closing" /\ c = t.conn
           \/ /\ t2.pc = "adding" /\ table[n] # NoSession /\ c = table[n].conn
              /\ TableFree(n)
    PROVE  IInv'
<1> DEFINE m1 == closeChannel(mine, c)
<1>1. /\ MuxOK(m1) /\ m1.cur = mine.cur /\ DOMAIN m1.conns = DOMAIN mine.conns
      /\ ~m1.conns[c].open
      /\ \A x \in DOMAIN mine.conns : x # c => m1.conns[x] = mine.conns[x]
  BY closeChannelOK
<1>2. become(n, m1, theirs, ts)
  OBVIOUS
<1> HIDE DEF m1
<1>3. \A x \in DOMAIN mine.conns : m1.conns[x].open => mine.conns[x].open
  BY <1>1
<1>4. \A x \in DOMAIN mux[n].conns : x \in DOMAIN m1.conns /\ (m1.conns[x].open => mux[n].conns[x].open)
  BY <1>1, <1>3 DEF Grows
<1>5. ClosedStay(n, m1)
  BY <1>4 DEF ClosedStay, IInv, Working, TableMatchesPumps, Pump
<1>6. Frames(n)
  BY Peers DEF Frames, IInv, Typed
<1>7. /\ t.kind # "pump" /\ t2.kind # "pump"
      /\ \A u \in tasks[n] : u # t => u \in ts
      /\ \A u \in ts : u \in tasks[n] \/ u = t2
  BY DEF HandshakeOK
<1>8. \A u \in ts : TaskOK(u) /\ u.conn \in DOMAIN m1.conns
  BY <1>4, <1>7 DEF IInv, Working, TaskOK
<1>9. table'[n] # NoSession => Pump(table'[n]) \in ts
  BY <1>7 DEF IInv, TableMatchesPumps, Pump
<1>10. \A u \in ts : u.kind = "pump" /\ m1.conns[u.conn].open
                     => table'[n] = Session(u.conn, u.a, u.b, u.role)
  BY <1>4, <1>7 DEF IInv, TableMatchesPumps, IsOpen, Working
<1>11. Inside(m1, ts, table'[n])
  <2>1. Inside(mux[n], tasks[n], table[n])
    BY DEF IInv, Closings
  <2>2. ASSUME m1.cur # 0, ~m1.conns[m1.cur].open
        PROVE  \E u \in ts : Closes(u, table[n], m1.cur)
    <3>1. CASE mine.cur = c
      <4>1. t2 \in ts /\ Closes(t2, table[n], c)
        BY <3>1 DEF Closes
      <4> QED BY <1>1, <3>1, <4>1
    <3>2. CASE mine.cur # c
      <4>1. mine.cur \in DOMAIN mine.conns
        BY <1>1, <2>2 DEF MuxOK
      <4>2. ~mine.conns[mine.cur].open /\ mine.cur # 0
        BY <1>1, <2>2, <3>2, <4>1
      <4>3. PICK u \in tasks[n] : Closes(u, table[n], mine.cur)
        BY <2>1, <4>2 DEF Grows, Inside
      <4>4. u # t
        BY <4>3 DEF Closes, UnderWay
      <4> QED BY <1>1, <1>7, <4>3, <4>4
    <3> QED BY <3>1, <3>2
  <2>3. ASSUME NEW u \in ts, u.pc = "closing" PROVE ~m1.conns[u.conn].open
    BY <1>1, <1>5, <1>7, <2>1, <2>3 DEF Inside, ClosedStay
  <2>4. ASSUME NEW u \in ts, u.pc = "adding"
        PROVE  /\ table[n] # NoSession /\ ~m1.conns[table[n].conn].open
               /\ \A v \in ts : v.pc = "adding" => v = u
    BY <1>1, <1>5, <1>7, <2>1, <2>4 DEF Inside, ClosedStay, TableFree
  <2> QED BY <2>2, <2>3, <2>4 DEF Inside
<1> QED BY <1>1, <1>2, <1>6, <1>8, <1>9, <1>10, <1>11, BecomeKeeps

\* The caller of a failed handshake.
LEMMA FailKeeps ==
    ASSUME IInv, NEW n \in Node, NEW t \in tasks[n], t.kind # "pump", UnderWay(t),
           NEW mine, NEW theirs, fail(n, t, mine, theirs),
           UNCHANGED <<epoch, table>>, budget' \subseteq budget,
           MuxOK(mine), Grows(mux[n], mine),
           MuxOK(theirs), Grows(mux[Peer(n)], theirs)
    PROVE  IInv'
<1> DEFINE t2 == [t EXCEPT !.pc = "closing"]
           ts == (tasks[n] \ {t}) \cup (IF mine.cur = t.conn THEN {t2} ELSE {})
<1>1. t.conn \in DOMAIN mine.conns /\ HandshakeOK(t)
  BY DEF IInv, Working, TaskOK, Grows
<1>2. HandshakeOK(t2) /\ t2.conn = t.conn /\ t2.pc = "closing"
  BY <1>1 DEF HandshakeOK, Pcs
<1>3. become(n, closeChannel(mine, t.conn), theirs, ts)
  BY DEF fail
<1> HIDE DEF t2
<1>4. ts = (tasks[n] \ {t}) \cup {t2} \/ (ts = tasks[n] \ {t} /\ mine.cur # t.conn)
  OBVIOUS
<1> HIDE DEF ts
<1> QED BY <1>1, <1>2, <1>3, <1>4, CloseKeeps

\* What a message from n and its acknowledgement make of the two muxes.
LEMMA reachedOK ==
    ASSUME IInv, NEW n \in Node, Roomy(n), NEW m \in Messages
    PROVE  /\ MuxOK(reached(n, m)) /\ Grows(mux[Peer(n)], reached(n, m))
           /\ MuxOK(acked(n)) /\ Grows(mux[n], acked(n))
<1>1. Peer(n) \in Node
  BY Peers
<1>2. MuxOK(mux[n]) /\ MuxOK(mux[Peer(n)]) /\ epoch[n] \in Epochs /\ epoch[Peer(n)] \in Epochs
  BY <1>1 DEF IInv, Muxes, Typed
<1>3. \A e : RoomFor(mux[n], e) /\ RoomFor(mux[Peer(n)], e)
  BY DEF Roomy, RoomFor
<1>4. MuxOK(reached(n, m)) /\ Grows(mux[Peer(n)], reached(n, m))
  BY <1>2, <1>3, readDataOK DEF reached
<1>5. MuxOK(readFrame(mux[n], epoch[Peer(n)])) /\ Grows(mux[n], readFrame(mux[n], epoch[Peer(n)]))
  BY <1>2, <1>3, readFrameOK
<1> QED BY <1>2, <1>4, <1>5, GrowsRefl DEF acked

\* The next state of a goroutine replaces it.
LEMMA ReplaceKeeps ==
    ASSUME IInv, NEW n \in Node, NEW t \in tasks[n], t.kind # "pump", UnderWay(t),
           NEW t2, HandshakeOK(t2), UnderWay(t2), t2.conn = t.conn,
           NEW mine, NEW theirs, become(n, mine, theirs, (tasks[n] \ {t}) \cup {t2}),
           UNCHANGED <<epoch, table>>, budget' \subseteq budget,
           MuxOK(mine), Grows(mux[n], mine),
           MuxOK(theirs), Grows(mux[Peer(n)], theirs)
    PROVE  IInv'
<1> DEFINE ts == (tasks[n] \ {t}) \cup {t2}
<1>1. t.conn \in DOMAIN mine.conns
  BY DEF IInv, Working, Grows
<1>2. /\ \A u \in tasks[n] : u.kind = "pump" \/ ~UnderWay(u) => u \in ts
      /\ \A u \in ts : u \in tasks[n] \/ (HandshakeOK(u) /\ UnderWay(u) /\ u.conn \in DOMAIN mine.conns)
  <2>1. \A u \in tasks[n] : u.kind = "pump" \/ ~UnderWay(u) => u \in ts
    OBVIOUS
  <2>2. HandshakeOK(t2) /\ UnderWay(t2) /\ t2.conn \in DOMAIN mine.conns
    BY <1>1
  <2> QED BY <2>1, <2>2
<1>3. become(n, mine, theirs, ts)
  OBVIOUS
<1> HIDE DEF ts
<1> QED BY <1>2, <1>3, HandshakeKeeps

\* Conn.Send fails: whatever reached the peer, the handshake is over.
LEMMA SendFailsKeeps ==
    ASSUME IInv, NEW n \in Node, NEW t \in tasks[n], t.kind # "pump", UnderWay(t),
           NEW m \in Messages, SendFails(n, t, m), UNCHANGED <<epoch, table>>
    PROVE  IInv'
<1>1. Roomy(n)
  BY DEF SendFails
<1>2. /\ MuxOK(reached(n, m)) /\ Grows(mux[Peer(n)], reached(n, m))
      /\ MuxOK(acked(n)) /\ Grows(mux[n], acked(n))
  BY <1>1, reachedOK
<1>3. /\ MuxOK(mux[n]) /\ Grows(mux[n], mux[n])
      /\ MuxOK(mux[Peer(n)]) /\ Grows(mux[Peer(n)], mux[Peer(n)])
  BY Peers, GrowsRefl DEF IInv, Muxes
<1>4. CASE fail(n, t, acked(n), reached(n, m)) /\ UNCHANGED budget
  BY <1>2, <1>4, FailKeeps
<1>5. CASE /\ spend(n, "loss")
           /\ \E theirs \in {mux[Peer(n)], reached(n, m)} : fail(n, t, mux[n], theirs)
  <2>1. budget' \subseteq budget
    BY <1>5 DEF spend
  <2>2. PICK theirs \in {mux[Peer(n)], reached(n, m)} : fail(n, t, mux[n], theirs)
    BY <1>5
  <2>3. MuxOK(theirs) /\ Grows(mux[Peer(n)], theirs)
    BY <1>2, <1>3, <2>2
  <2> QED BY <1>3, <2>1, <2>2, <2>3, FailKeeps
<1> QED BY <1>4, <1>5 DEF SendFails

LEMMA SendKeeps ==
    ASSUME IInv, NEW n \in Node, NEW t \in tasks[n], t.kind # "pump", UnderWay(t),
           NEW m \in Messages, NEW t2, HandshakeOK(t2), UnderWay(t2), t2.conn = t.conn,
           SendStep(n, t, m, t2)
    PROVE  IInv'
<1>1. UNCHANGED <<epoch, table>>
  BY DEF SendStep
<1>2. CASE /\ SendSucceeds(n, t)
           /\ become(n, acked(n), reached(n, m), (tasks[n] \ {t}) \cup {t2})
           /\ UNCHANGED budget
  <2>1. /\ MuxOK(reached(n, m)) /\ Grows(mux[Peer(n)], reached(n, m))
        /\ MuxOK(acked(n)) /\ Grows(mux[n], acked(n))
    BY <1>2, reachedOK DEF SendSucceeds
  <2> QED BY <1>1, <1>2, <2>1, ReplaceKeeps
<1>3. CASE SendFails(n, t, m)
  BY <1>1, <1>3, SendFailsKeeps
<1> QED BY <1>2, <1>3 DEF SendStep

\* What a step that does not touch the peer knows of the two muxes.
LEMMA MuxesAsTheyAre ==
    ASSUME IInv, NEW n \in Node
    PROVE  /\ MuxOK(mux[n]) /\ Grows(mux[n], mux[n])
           /\ MuxOK(mux[Peer(n)]) /\ Grows(mux[Peer(n)], mux[Peer(n)])
BY Peers, GrowsRefl DEF IInv, Muxes

\* Conn.Recv fails, because of Close or of a timeout.
LEMMA RecvFailsKeeps ==
    ASSUME IInv, NEW n \in Node, NEW t \in tasks[n], t.kind # "pump", UnderWay(t),
           RecvFails(n, t)
    PROVE  IInv'
BY FailKeeps, MuxesAsTheyAre DEF RecvFails

LEMMA RecvKeeps ==
    ASSUME IInv, NEW n \in Node, NEW t \in tasks[n], t.kind # "pump", UnderWay(t),
           NEW good, NEW t2, RecvStep(n, t, good, t2), UnderWay(t2),
           inbox(n, t) # << >> /\ good => HandshakeOK(t2) /\ t2.conn = t.conn
    PROVE  IInv'
<1>1. CASE /\ inbox(n, t) # << >>
           /\ IF good
              THEN become(n, take(n, t), mux[Peer(n)], (tasks[n] \ {t}) \cup {t2})
              ELSE fail(n, t, take(n, t), mux[Peer(n)])
           /\ UNCHANGED <<epoch, table, budget>>
  <2>1. MuxOK(take(n, t)) /\ Grows(mux[n], take(n, t))
    BY <1>1, takeOK
  <2>2. CASE good
    BY <1>1, <2>1, <2>2, MuxesAsTheyAre, ReplaceKeeps
  <2>3. CASE ~good
    BY <1>1, <2>1, <2>3, MuxesAsTheyAre, FailKeeps
  <2> QED BY <2>2, <2>3
<1>2. CASE RecvFails(n, t)
  BY <1>2, RecvFailsKeeps
<1> QED BY <1>1, <1>2 DEF RecvStep

\* A goroutine drops a message: its handshake or session goes on.
LEMMA DropKeeps ==
    ASSUME IInv, NEW n \in Node, NEW t \in tasks[n], inbox(n, t) # << >>,
           become(n, take(n, t), mux[Peer(n)], tasks[n]),
           UNCHANGED <<epoch, table, budget>>
    PROVE  IInv'
<1> DEFINE mine == take(n, t)
           theirs == mux[Peer(n)]
           ts == tasks[n]
<1>1. MuxOK(mine) /\ Grows(mux[n], mine) /\ MuxOK(theirs) /\ Grows(mux[Peer(n)], theirs)
  BY takeOK, MuxesAsTheyAre
<1>2. become(n, mine, theirs, ts) /\ UNCHANGED <<epoch, table>> /\ budget' \subseteq budget
  OBVIOUS
<1>3. /\ \A u \in ts : u \in tasks[n]
      /\ \A u \in tasks[n] : u.kind = "pump" \/ ~UnderWay(u) => u \in ts
  OBVIOUS
<1> HIDE DEF mine, theirs, ts
<1> QED BY <1>1, <1>2, <1>3, HandshakeKeeps

\* Table.Add sets the entry: the session it replaces has lost its connection
\* when the pump of the new one starts.
LEMMA SetEntryKeeps ==
    ASSUME IInv, NEW n \in Node, NEW t \in tasks[n], HandshakeOK(t),
           t.pc # "closing", t.a \in Attempts, t.b \in Attempts,
           \A u \in tasks[n] : u.pc = "adding" => u = t,
           NEW mine, NEW theirs, setEntry(n, t, mine, theirs), UNCHANGED <<epoch, budget>>,
           MuxOK(mine), Grows(mux[n], mine),
           MuxOK(theirs), Grows(mux[Peer(n)], theirs),
           table[n] # NoSession => ~mine.conns[table[n].conn].open /\ mine.cur # table[n].conn
    PROVE  IInv'
<1> DEFINE s == Session(t.conn, t.a, t.b, Role(t))
           old == table[n]
           ts == (tasks[n] \ {t}) \cup {Pump(s)}
<1>1. /\ table' = [table EXCEPT ![n] = s]
      /\ become(n, mine, theirs, ts)
      /\ UNCHANGED <<epoch, budget>>
  BY DEF setEntry
<1>2. s \in Sessions /\ s # NoSession
  <2>1. t.conn \in ConnIds /\ Role(t) \in {"init", "resp"}
    BY DEF HandshakeOK, Role
  <2> QED BY <2>1, SessionIsOne DEF Session, Sessions
<1>3. s.conn = t.conn /\ s.a = t.a /\ s.b = t.b
  BY DEF Session
<1>4. /\ Pump(s).kind = "pump" /\ Pump(s).pc = "recv" /\ Pump(s).conn = t.conn
      /\ s = Session(Pump(s).conn, Pump(s).a, Pump(s).b, Pump(s).role)
  BY DEF Pump, Session
<1> HIDE DEF s
<1>5. t.conn \in DOMAIN mine.conns
  BY DEF IInv, Working, Grows
<1>9. Frames(n) /\ table'[n] = s
  <2>1. table \in [Node -> Sessions \cup {NoSession}]
    BY DEF IInv, Typed
  <2> QED BY <1>1, <1>2, <2>1, Peers DEF Frames, IInv, Typed
<1>10. \A u \in ts : TaskOK(u) /\ u.conn \in DOMAIN mine.conns
  BY <1>4, <1>5 DEF IInv, Working, TaskOK, Grows
<1>11. Pump(table'[n]) \in ts
  BY <1>9
<1>12. \A u \in ts : u.kind = "pump" /\ mine.conns[u.conn].open
                     => table'[n] = Session(u.conn, u.a, u.b, u.role)
  <2> SUFFICES ASSUME NEW u \in tasks[n], u.kind = "pump", mine.conns[u.conn].open
               PROVE  FALSE
    BY <1>4, <1>9
  <2>1. mux[n].conns[u.conn].open
    BY DEF Grows, IInv, Working
  <2>2. old = Session(u.conn, u.a, u.b, u.role)
    BY <2>1 DEF IInv, TableMatchesPumps, IsOpen
  <2>3. old # NoSession
    BY <2>2, SessionIsOne
  <2>4. old.conn = u.conn
    BY <2>2 DEF Session
  <2> QED BY <2>3, <2>4
<1>13. Inside(mine, ts, table'[n])
  <2>1. Inside(mux[n], tasks[n], old)
    BY DEF IInv, Closings
  <2>2. ASSUME mine.cur # 0, ~mine.conns[mine.cur].open
        PROVE  \E u \in ts : Closes(u, s, mine.cur)
    <3>1. PICK u \in tasks[n] : Closes(u, old, mine.cur)
      BY <2>1, <2>2 DEF Grows, Inside
    <3>2. u.pc = "closing" /\ u.conn = mine.cur
      BY <3>1 DEF Closes
    <3> QED BY <3>2 DEF Closes
  <2>3. ClosedStay(n, mine)
    BY ClosedStays
  <2>4. \A u \in ts : u.pc # "adding" /\ (u.pc = "closing" => u \in tasks[n])
    BY <1>4
  <2> QED BY <1>9, <2>1, <2>2, <2>3, <2>4 DEF Inside, ClosedStay
<1> HIDE DEF ts
<1> QED BY <1>1, <1>9, <1>10, <1>11, <1>12, <1>13, BecomeKeeps

\* adoptSession, up to the entry or to the second half of the replaced
\* session's Close.
LEMMA AdoptKeeps ==
    ASSUME IInv, NEW n \in Node, NEW t \in tasks[n], HandshakeOK(t), UnderWay(t),
           t.a \in Attempts, t.b \in Attempts,
           NEW mine, NEW theirs, adopt(n, t, mine, theirs),
           MuxOK(mine), Grows(mux[n], mine),
           MuxOK(theirs), Grows(mux[Peer(n)], theirs)
    PROVE  IInv'
<1>1. TableFree(n) /\ UNCHANGED <<epoch, budget>>
  BY DEF adopt
<1>2. CASE (table[n] = NoSession \/ mine.cur # table[n].conn) /\ setEntry(n, t, mine, theirs)
  <2>1. \A u \in tasks[n] : u.pc = "adding" => u = t
    BY <1>1 DEF TableFree
  <2>2. ASSUME table[n] # NoSession PROVE ~mine.conns[table[n].conn].open
    <3>1. table[n].conn \in DOMAIN mine.conns
      BY <2>2, EntryKnown DEF Grows
    <3> QED BY <1>2, <2>2, <3>1 DEF MuxOK
  <2>3. t.pc # "closing"
    BY DEF UnderWay
  <2> QED BY <1>1, <1>2, <2>1, <2>2, <2>3, SetEntryKeeps
<1>3. CASE /\ ~(table[n] = NoSession \/ mine.cur # table[n].conn)
           /\ become(n, closeChannel(mine, table[n].conn), theirs,
                     (tasks[n] \ {t}) \cup {[t EXCEPT !.pc = "adding"]})
           /\ UNCHANGED table
  <2> DEFINE t2 == [t EXCEPT !.pc = "adding"]
             ts == (tasks[n] \ {t}) \cup {t2}
             c == table[n].conn
  <2>1. HandshakeOK(t2) /\ t2.conn = t.conn /\ t2.pc = "adding"
    BY DEF HandshakeOK, Pcs
  <2>2. c \in DOMAIN mine.conns
    BY <1>3, EntryKnown DEF Grows
  <2>3. become(n, closeChannel(mine, c), theirs, ts) /\ UNCHANGED <<epoch, table>> /\ budget' \subseteq budget
    BY <1>1, <1>3
  <2>4. ts = (tasks[n] \ {t}) \cup {t2} /\ table[n] # NoSession
    BY <1>3
  <2>5. t2.pc = "adding" /\ table[n] # NoSession /\ c = table[n].conn /\ TableFree(n)
    BY <1>1, <2>1, <2>4
  <2> HIDE DEF t2, ts, c
  <2> QED BY <2>1, <2>2, <2>3, <2>4, <2>5, CloseKeeps
<1> QED BY <1>2, <1>3 DEF adopt

\* ... and the rest of Table.Add.
LEMMA FinishAddKeeps ==
    ASSUME IInv, NEW n \in Node, NEW t \in tasks[n], FinishAdd(n, t)
    PROVE  IInv'
<1> DEFINE c == table[n].conn
           mine == removeConn(mux[n], c)
<1>1. t.pc = "adding" /\ setEntry(n, t, mine, mux[Peer(n)]) /\ UNCHANGED <<epoch, budget>>
  BY DEF FinishAdd
<1>2. HandshakeOK(t) /\ t.a \in Attempts /\ t.b \in Attempts
  BY <1>1 DEF IInv, Working, TaskOK, HandshakeOK
<1>3. /\ table[n] # NoSession /\ ~mux[n].conns[c].open
      /\ \A u \in tasks[n] : u.pc = "adding" => u = t
  BY <1>1 DEF IInv, Closings, Inside
<1>4. c \in DOMAIN mux[n].conns
  BY <1>3, EntryKnown
<1> HIDE DEF c
<1>5. MuxOK(mine) /\ Grows(mux[n], mine) /\ mine.cur # c /\ mine.conns = mux[n].conns
  BY <1>3, <1>4, MuxesAsTheyAre, removeConnOK
<1> HIDE DEF mine
<1> QED BY <1>1, <1>2, <1>3, <1>5, MuxesAsTheyAre, SetEntryKeeps DEF c

\* The second half of Close after a failed handshake.
LEMMA FinishCloseKeeps ==
    ASSUME IInv, NEW n \in Node, NEW t \in tasks[n], FinishClose(n, t)
    PROVE  IInv'
<1> DEFINE mine == removeConn(mux[n], t.conn)
           ts == tasks[n] \ {t}
<1>1. /\ t.pc = "closing" /\ become(n, mine, mux[Peer(n)], ts)
      /\ UNCHANGED <<epoch, table, budget>>
  BY DEF FinishClose
<1>2. HandshakeOK(t) /\ t.kind # "pump" /\ t.conn \in DOMAIN mux[n].conns
  BY <1>1 DEF IInv, Working, TaskOK, HandshakeOK
<1>3. ~mux[n].conns[t.conn].open /\ Inside(mux[n], tasks[n], table[n])
  BY <1>1 DEF IInv, Closings, Inside
<1>4. /\ MuxOK(mine) /\ Grows(mux[n], mine) /\ mine.cur # t.conn
      /\ mine.conns = mux[n].conns
  BY <1>2, <1>3, MuxesAsTheyAre, removeConnOK
<1> HIDE DEF mine
<1>5. Frames(n)
  BY <1>1, Peers DEF Frames, IInv, Typed
<1>6. \A u \in ts : TaskOK(u) /\ u.conn \in DOMAIN mine.conns
  BY <1>4 DEF IInv, Working
<1>7. /\ table'[n] # NoSession => Pump(table'[n]) \in ts
      /\ \A u \in ts : u.kind = "pump" /\ mine.conns[u.conn].open
                       => table'[n] = Session(u.conn, u.a, u.b, u.role)
  BY <1>1, <1>2, <1>4 DEF IInv, TableMatchesPumps, IsOpen, Pump
<1>8. Inside(mine, ts, table'[n])
  <2>1. ASSUME mine.cur # 0, ~mine.conns[mine.cur].open
        PROVE  \E u \in ts : Closes(u, table[n], mine.cur)
    <3>1. PICK u \in tasks[n] : Closes(u, table[n], mine.cur)
      BY <1>3, <1>4, <2>1 DEF Grows, Inside
    <3>2. u # t
      BY <1>1, <1>4, <3>1 DEF Closes
    <3> QED BY <3>1, <3>2
  <2> QED BY <1>1, <1>3, <1>4, <2>1 DEF Inside
<1> HIDE DEF ts
<1> QED BY <1>1, <1>4, <1>5, <1>6, <1>7, <1>8, MuxesAsTheyAre, BecomeKeeps

-----------------------------------------------------------------------------
(* One lemma per action.                                                   *)

LEMMA PumpEndKeeps ==
    ASSUME IInv, NEW n \in Node, NEW t \in tasks[n], PumpEnd(n, t)
    PROVE  IInv'
<1> DEFINE own == Session(t.conn, t.a, t.b, t.role)
           ts == tasks[n] \ {t}
<1>1. /\ t.kind = "pump" /\ ~mux[n].conns[t.conn].open /\ TableFree(n)
      /\ table' = [table EXCEPT ![n] = IF table[n] = own THEN NoSession ELSE table[n]]
      /\ become(n, mux[n], mux[Peer(n)], ts) /\ UNCHANGED <<epoch, budget>>
  BY DEF PumpEnd, IsOpen
<1>2. own.conn = t.conn
  BY DEF Session
<1>3. /\ table \in [Node -> Sessions \cup {NoSession}]
      /\ table[n] # NoSession => Pump(table[n]) \in tasks[n]
      /\ \A u \in tasks[n] : u.kind = "pump" /\ mux[n].conns[u.conn].open
                             => table[n] = Session(u.conn, u.a, u.b, u.role)
  BY DEF IInv, Typed, TableMatchesPumps, IsOpen
<1>4. table'[n] = (IF table[n] = own THEN NoSession ELSE table[n]) /\ table'[Peer(n)] = table[Peer(n)]
  BY <1>1, <1>3, Peers
<1>5. Frames(n)
  <2>1. table' \in [Node -> Sessions \cup {NoSession}]
    BY <1>1, <1>3
  <2> QED BY <1>1, <1>4, <2>1 DEF Frames, IInv, Typed
<1>6. ASSUME table'[n] # NoSession PROVE Pump(table'[n]) \in ts
  <2>1. table'[n] = table[n] /\ table[n] # own /\ table[n] \in Sessions /\ Pump(table[n]) \in tasks[n]
    BY <1>3, <1>4, <1>6
  <2> DEFINE s == table[n]
  <2>2. ASSUME Pump(s) = t PROVE FALSE
    <3>1. t.conn = s.conn /\ t.a = s.a /\ t.b = s.b /\ t.role = s.role
      BY <2>2 DEF Pump
    <3>2. s = Session(s.conn, s.a, s.b, s.role)
      BY <2>1 DEF Session, Sessions
    <3> QED BY <2>1, <3>1, <3>2
  <2> QED BY <2>1, <2>2
<1>7. \A u \in ts : u.kind = "pump" /\ mux[n].conns[u.conn].open
                    => table'[n] = Session(u.conn, u.a, u.b, u.role)
  <2> SUFFICES ASSUME NEW u \in tasks[n], u.kind = "pump", mux[n].conns[u.conn].open
               PROVE  table'[n] = Session(u.conn, u.a, u.b, u.role)
    OBVIOUS
  <2>1. table[n] = Session(u.conn, u.a, u.b, u.role)
    BY <1>3
  <2>2. table[n].conn = u.conn
    BY <2>1 DEF Session
  <2>3. table[n] # own
    BY <1>1, <1>2, <2>2
  <2> QED BY <1>4, <2>1, <2>3
<1>8. \A u \in ts : TaskOK(u) /\ u.conn \in DOMAIN mux[n].conns
  BY DEF IInv, Working
<1>9. Inside(mux[n], ts, table'[n])
  <2>1. Inside(mux[n], tasks[n], table[n]) /\ t.pc = "recv"
    BY <1>1 DEF IInv, Closings, Working, TaskOK, HandshakeOK
  <2>2. \A u \in tasks[n] : u.pc # "adding"
    BY <1>1 DEF TableFree
  <2>3. ASSUME mux[n].cur # 0, ~mux[n].conns[mux[n].cur].open
        PROVE  \E u \in ts : Closes(u, table'[n], mux[n].cur)
    <3>1. PICK u \in tasks[n] : Closes(u, table[n], mux[n].cur)
      BY <2>1, <2>3 DEF Inside
    <3> QED BY <2>1, <2>2, <3>1 DEF Closes
  <2> QED BY <2>1, <2>2, <2>3 DEF Inside
<1> HIDE DEF ts
<1> QED BY <1>1, <1>5, <1>6, <1>7, <1>8, <1>9, MuxesAsTheyAre, BecomeKeeps

LEMMA PumpRecvKeeps ==
    ASSUME IInv, NEW n \in Node, NEW t \in tasks[n], PumpRecv(n, t)
    PROVE  IInv'
BY DropKeeps DEF PumpRecv

\* What Dial makes of the two muxes: the mux of the caller has a connection
\* in mux.peers, and room for one more.
LEMMA DialOK ==
    ASSUME IInv, NEW n \in Node, Roomy(n), Cardinality(FreeConns(mux[n])) > 1
    PROVE  LET mine == IF mux[n].cur = 0 THEN newConn(mux[n], 0) ELSE mux[n]
               pong == readFrame(mine, epoch[Peer(n)])
               theirs == readFrame(mux[Peer(n)], epoch[n])
           IN  /\ MuxOK(mine) /\ Grows(mux[n], mine) /\ mine.cur \in DOMAIN mine.conns
               /\ MuxOK(pong) /\ Grows(mux[n], pong) /\ mine.cur \in DOMAIN pong.conns
               /\ MuxOK(theirs) /\ Grows(mux[Peer(n)], theirs)
<1> DEFINE mine == IF mux[n].cur = 0 THEN newConn(mux[n], 0) ELSE mux[n]
           pong == readFrame(mine, epoch[Peer(n)])
           theirs == readFrame(mux[Peer(n)], epoch[n])
<1>1. MuxOK(mux[n]) /\ MuxOK(mux[Peer(n)]) /\ epoch[n] \in Epochs /\ epoch[Peer(n)] \in Epochs
  BY Peers, MuxesAsTheyAre DEF IInv, Typed
<1>2. /\ MuxOK(mine) /\ Grows(mux[n], mine) /\ mine.cur \in DOMAIN mine.conns
      /\ RoomFor(mine, epoch[Peer(n)])
  <2>1. CASE mux[n].cur = 0
    BY <1>1, <2>1, NoneOpen, newConnOK, ZeroFree DEF Roomy, RoomFor, FreeConns
  <2>2. CASE mux[n].cur # 0
    BY <1>1, <2>2, GrowsRefl DEF Roomy, RoomFor, MuxOK
  <2> QED BY <2>1, <2>2
<1>3. MuxOK(theirs) /\ Grows(mux[Peer(n)], theirs)
  BY <1>1, readFrameOK DEF Roomy, RoomFor
<1> HIDE DEF mine
<1>4. MuxOK(pong) /\ Grows(mine, pong)
  BY <1>1, <1>2, readFrameOK
<1>5. Grows(mux[n], pong) /\ mine.cur \in DOMAIN pong.conns
  BY <1>2, <1>4, GrowsTrans DEF Grows
<1> QED BY <1>2, <1>3, <1>4, <1>5 DEF mine

LEMMA DialKeeps ==
    ASSUME IInv, NEW n \in Node, NEW kind \in {"seed", "user"},
           NEW left \in SUBSET budget, Dial(n, kind, left)
    PROVE  IInv'
<1> DEFINE mine == IF mux[n].cur = 0 THEN newConn(mux[n], 0) ELSE mux[n]
           pong == readFrame(mine, epoch[Peer(n)])
           theirs == readFrame(mux[Peer(n)], epoch[n])
           t == Task(kind, "hello", mine.cur, fresh(n), NoId)
<1>1. /\ Roomy(n) /\ Cardinality(FreeConns(mux[n])) > 1 /\ HasFresh(n)
      /\ UNCHANGED <<epoch, table>>
      /\ \/ /\ become(n, pong, theirs, tasks[n] \cup {t})
            /\ budget' = left
         \/ /\ become(n, pong, theirs, tasks[n])
            /\ budget' = left
         \/ /\ budget' = left \ {<<n, "loss">>}
            /\ \E x \in {mux[Peer(n)], theirs} : become(n, mine, x, tasks[n])
  BY DEF Dial
<1>2. /\ MuxOK(mine) /\ Grows(mux[n], mine) /\ mine.cur \in DOMAIN mine.conns
      /\ MuxOK(pong) /\ Grows(mux[n], pong) /\ mine.cur \in DOMAIN pong.conns
      /\ MuxOK(theirs) /\ Grows(mux[Peer(n)], theirs)
  BY <1>1, DialOK
<1>3. /\ MuxOK(mux[Peer(n)]) /\ Grows(mux[Peer(n)], mux[Peer(n)])
  BY MuxesAsTheyAre
<1>4. budget' \subseteq budget
  BY <1>1
<1> HIDE DEF mine, pong, theirs
<1>5. HandshakeOK(t) /\ UnderWay(t) /\ t.conn \in DOMAIN pong.conns
  <2>1. mine.cur \in ConnIds /\ fresh(n) \in Attempts
    BY <1>1, <1>2, freshOK, TableIn DEF MuxOK, MuxType
  <2> QED BY <1>2, <2>1 DEF HandshakeOK, UnderWay, Task, Pcs
<1> HIDE DEF t
<1>6. ASSUME NEW x, NEW y, become(n, x, y, tasks[n]), MuxOK(x), MuxOK(y),
             Grows(mux[n], x), Grows(mux[Peer(n)], y)
      PROVE  IInv'
  <2> DEFINE ts == tasks[n]
  <2>1. /\ \A u \in ts : u \in tasks[n] \/ (HandshakeOK(u) /\ UnderWay(u) /\ u.conn \in DOMAIN x.conns)
        /\ \A u \in tasks[n] : u.kind = "pump" \/ ~UnderWay(u) => u \in ts
        /\ become(n, x, y, ts)
    BY <1>6
  <2> HIDE DEF ts
  <2> QED BY <1>1, <1>4, <1>6, <2>1, HandshakeKeeps
<1>7. CASE become(n, pong, theirs, tasks[n] \cup {t})
  <2> DEFINE ts == tasks[n] \cup {t}
  <2>1. /\ \A u \in ts : u \in tasks[n] \/ (HandshakeOK(u) /\ UnderWay(u) /\ u.conn \in DOMAIN pong.conns)
        /\ \A u \in tasks[n] : u.kind = "pump" \/ ~UnderWay(u) => u \in ts
        /\ become(n, pong, theirs, ts)
    BY <1>5, <1>7
  <2> HIDE DEF ts
  <2> QED BY <1>1, <1>2, <1>4, <2>1, HandshakeKeeps
<1>8. CASE become(n, pong, theirs, tasks[n])
  BY <1>2, <1>6, <1>8
<1>9. CASE \E x \in {mux[Peer(n)], theirs} : become(n, mine, x, tasks[n])
  BY <1>2, <1>3, <1>6, <1>9
<1> QED BY <1>1, <1>7, <1>8, <1>9

\* The handshake of the initiator.
LEMMA InitiateKeeps ==
    ASSUME IInv, NEW n \in Node, NEW t \in tasks[n], Initiate(n, t)
    PROVE  IInv'
<1> DEFINE m == Head(inbox(n, t))
<1>1. /\ t.kind \in {"seed", "user"} /\ t.kind # "pump"
      /\ HandshakeOK(t) /\ t.a \in Attempts /\ Role(t) = "init"
  BY DEF Initiate, IInv, Working, TaskOK, HandshakeOK, Role
<1>2. CASE /\ t.pc = "hello"
           /\ SendStep(n, t, Msg("hello", t.a, NoId, "init"), [t EXCEPT !.pc = "ack"])
  <2> DEFINE t2 == [t EXCEPT !.pc = "ack"]
             out == Msg("hello", t.a, NoId, "init")
  <2>1. HandshakeOK(t2) /\ UnderWay(t2) /\ t2.conn = t.conn
    BY <1>1, <1>2 DEF HandshakeOK, UnderWay, Pcs
  <2>2. out \in Messages
    BY <1>1 DEF Messages, Msg, Types, Roles
  <2> HIDE DEF t2, out
  <2> QED BY <1>1, <1>2, <2>1, <2>2, SendKeeps DEF t2, out, UnderWay
<1>3. CASE /\ t.pc = "ack"
           /\ RecvStep(n, t, m.type = "ack" /\ m.a = t.a, [t EXCEPT !.pc = "complete", !.b = m.b])
  <2> DEFINE t2 == [t EXCEPT !.pc = "complete", !.b = m.b]
             good == m.type = "ack" /\ m.a = t.a
  <2>1. ASSUME inbox(n, t) # << >>, good PROVE HandshakeOK(t2) /\ t2.conn = t.conn
    <3>1. m \in Messages
      BY <2>1, takeOK
    <3>2. m.b \in Attempts
      BY <2>1, <3>1 DEF Messages
    <3> HIDE DEF m
    <3> QED BY <1>1, <1>3, <3>2 DEF HandshakeOK, Pcs
  <2>2. RecvStep(n, t, good, t2) /\ UnderWay(t) /\ UnderWay(t2)
    BY <1>1, <1>3 DEF HandshakeOK, UnderWay
  <2> HIDE DEF t2, good
  <2> QED BY <1>1, <2>1, <2>2, RecvKeeps
<1>4. CASE /\ t.pc = "complete"
           /\ SendStep(n, t, Msg("complete", t.a, t.b, "init"), [t EXCEPT !.pc = "policyOut"])
  <2> DEFINE t2 == [t EXCEPT !.pc = "policyOut"]
             out == Msg("complete", t.a, t.b, "init")
  <2>1. HandshakeOK(t2) /\ UnderWay(t2) /\ t2.conn = t.conn /\ t.b \in Attempts
    BY <1>1, <1>4 DEF HandshakeOK, UnderWay, Pcs
  <2>2. out \in Messages
    BY <1>1, <2>1 DEF Messages, Msg, Types, Roles
  <2> HIDE DEF t2, out
  <2> QED BY <1>1, <1>4, <2>1, <2>2, SendKeeps DEF t2, out, UnderWay
<1>5. CASE /\ t.pc = "policyOut"
           /\ SendStep(n, t, Msg("policy", t.a, t.b, "init"), [t EXCEPT !.pc = "policyIn"])
  <2> DEFINE t2 == [t EXCEPT !.pc = "policyIn"]
             out == Msg("policy", t.a, t.b, "init")
  <2>1. HandshakeOK(t2) /\ UnderWay(t2) /\ t2.conn = t.conn /\ t.b \in Attempts
    BY <1>1, <1>5 DEF HandshakeOK, UnderWay, Pcs
  <2>2. out \in Messages
    BY <1>1, <2>1 DEF Messages, Msg, Types, Roles
  <2> HIDE DEF t2, out
  <2> QED BY <1>1, <1>5, <2>1, <2>2, SendKeeps DEF t2, out, UnderWay
<1>6. CASE /\ t.pc = "policyIn"
           /\ inbox(n, t) # << >>
           /\ \/ RecvPolicyDrops(n, t, m)
              \/ /\ opens(m, t.a, t.b, "init")
                 /\ IF m.type = "policy"
                    THEN adopt(n, t, take(n, t), mux[Peer(n)])
                    ELSE /\ fail(n, t, take(n, t), mux[Peer(n)])
                         /\ UNCHANGED <<epoch, table, budget>>
  <2>1. MuxOK(take(n, t)) /\ Grows(mux[n], take(n, t))
    BY <1>6, takeOK
  <2>2. t.b \in Attempts
    BY <1>1, <1>6 DEF HandshakeOK
  <2>3. CASE RecvPolicyDrops(n, t, m)
    BY <1>6, <2>3, DropKeeps DEF RecvPolicyDrops
  <2>4. CASE adopt(n, t, take(n, t), mux[Peer(n)])
    BY <1>1, <1>6, <2>1, <2>2, <2>4, MuxesAsTheyAre, AdoptKeeps DEF UnderWay
  <2>5. CASE fail(n, t, take(n, t), mux[Peer(n)]) /\ UNCHANGED <<epoch, table, budget>>
    BY <1>1, <1>6, <2>1, <2>5, MuxesAsTheyAre, FailKeeps DEF UnderWay
  <2> QED BY <1>6, <2>3, <2>4, <2>5
<1>7. CASE t.pc = "policyIn" /\ RecvFails(n, t)
  BY <1>1, <1>7, RecvFailsKeeps DEF UnderWay
<1> QED BY <1>2, <1>3, <1>4, <1>5, <1>6, <1>7 DEF Initiate

\* acceptLoop takes the oldest connection of the backlog.
LEMMA AcceptKeeps ==
    ASSUME IInv, NEW n \in Node, Accept(n)
    PROVE  IInv'
<1> DEFINE mx == mux[n]
           as == Tail(mx.accepts)
           c == Head(mx.accepts)
           mine == [mx EXCEPT !.accepts = as]
           t == Task("resp", "hello", c, NoId, NoId)
           ts == tasks[n] \cup {t}
<1>1. /\ mx.accepts # << >> /\ become(n, mine, mux[Peer(n)], ts)
      /\ UNCHANGED <<epoch, table, budget>>
  BY DEF Accept
<1>2. MuxOK(mx) /\ mx \in MuxType /\ mx.accepts \in Seq(ConnIds)
  BY DEF IInv, Muxes, MuxOK, MuxType
<1>3. /\ c \in ConnIds /\ as \in Seq(ConnIds) /\ Len(as) = Len(mx.accepts) - 1
      /\ \A i \in 1..Len(as) : as[i] = mx.accepts[i + 1]
  BY <1>1, <1>2, HeadTailProperties
<1>4. Len(mx.accepts) \in Nat \ {0} /\ AcceptBacklog \in Nat
  BY <1>1, <1>2, EmptySeq, BoundAssumption
<1>5. c = mx.accepts[1]
  BY <1>1, <1>2
<1>6. c \in DOMAIN mx.conns
  <2>1. 1 \in 1..Len(mx.accepts)
    BY <1>4
  <2> QED BY <1>2, <1>5, <2>1 DEF MuxOK
<1>7. Len(as) <= AcceptBacklog /\ \A j \in 1..Len(as) : as[j] \in DOMAIN mx.conns
  <2>1. Len(as) <= AcceptBacklog
    <3>1. Len(mx.accepts) <= AcceptBacklog
      BY <1>2 DEF MuxOK
    <3> QED BY <1>3, <1>4, <3>1
  <2>2. \A j \in 1..Len(as) : j + 1 \in 1..Len(mx.accepts)
    BY <1>3, <1>4
  <2>3. \A i \in 1..Len(mx.accepts) : mx.accepts[i] \in DOMAIN mx.conns
    BY <1>2 DEF MuxOK
  <2> QED BY <1>3, <2>1, <2>2, <2>3
<1> HIDE DEF mx, as, c
<1>8. mine \in MuxType /\ mine.cur = mx.cur /\ mine.conns = mx.conns /\ mine.accepts = as
  BY <1>2, <1>3 DEF MuxType
<1> HIDE DEF mine
<1>9. MuxOK(mine) /\ Grows(mux[n], mine)
  <2>1. MuxOK(mine)
    BY <1>2, <1>7, <1>8 DEF MuxOK
  <2> QED BY <1>8, <2>1 DEF Grows, mx
<1>10. HandshakeOK(t) /\ UnderWay(t) /\ t.conn = c
  BY <1>3 DEF HandshakeOK, UnderWay, Task, Pcs
<1> HIDE DEF t
<1>11. /\ \A u \in ts : u \in tasks[n] \/ (HandshakeOK(u) /\ UnderWay(u) /\ u.conn \in DOMAIN mine.conns)
       /\ \A u \in tasks[n] : u.kind = "pump" \/ ~UnderWay(u) => u \in ts
  BY <1>6, <1>8, <1>10
<1> HIDE DEF ts
<1> QED BY <1>1, <1>9, <1>11, MuxesAsTheyAre, HandshakeKeeps

\* The handshake of the responder.
LEMMA RespondKeeps ==
    ASSUME IInv, NEW n \in Node, NEW t \in tasks[n], Respond(n, t)
    PROVE  IInv'
<1> DEFINE m == Head(inbox(n, t))
<1>1. /\ t.kind = "resp" /\ t.kind # "pump" /\ HandshakeOK(t) /\ Role(t) = "resp"
      /\ t.pc \notin {"hello", "closing"} => t.a \in Attempts /\ t.b \in Attempts
  BY DEF Respond, IInv, Working, TaskOK, HandshakeOK, Role
<1>2. CASE /\ t.pc = "hello" /\ HasFresh(n)
           /\ RecvStep(n, t, m.type = "hello", [t EXCEPT !.pc = "ack", !.a = m.a, !.b = fresh(n)])
  <2> DEFINE t2 == [t EXCEPT !.pc = "ack", !.a = m.a, !.b = fresh(n)]
             good == m.type = "hello"
  <2>1. ASSUME inbox(n, t) # << >>, good PROVE HandshakeOK(t2) /\ t2.conn = t.conn
    <3>1. m \in Messages /\ fresh(n) \in Attempts
      BY <1>2, <2>1, takeOK, freshOK
    <3>2. m.a \in Attempts
      BY <3>1 DEF Messages
    <3> HIDE DEF m
    <3> QED BY <1>1, <1>2, <3>1, <3>2 DEF HandshakeOK, Pcs
  <2>2. RecvStep(n, t, good, t2) /\ UnderWay(t) /\ UnderWay(t2)
    BY <1>1, <1>2 DEF HandshakeOK, UnderWay
  <2> HIDE DEF t2, good
  <2> QED BY <1>1, <2>1, <2>2, RecvKeeps
<1>3. CASE /\ t.pc = "ack"
           /\ SendStep(n, t, Msg("ack", t.a, t.b, "resp"), [t EXCEPT !.pc = "complete"])
  <2> DEFINE t2 == [t EXCEPT !.pc = "complete"]
             out == Msg("ack", t.a, t.b, "resp")
  <2>1. HandshakeOK(t2) /\ UnderWay(t2) /\ t2.conn = t.conn
    BY <1>1, <1>3 DEF HandshakeOK, UnderWay, Pcs
  <2>2. out \in Messages
    BY <1>1, <1>3 DEF Messages, Msg, Types, Roles
  <2> HIDE DEF t2, out
  <2> QED BY <1>1, <1>3, <2>1, <2>2, SendKeeps DEF t2, out, UnderWay
<1>4. CASE /\ t.pc = "complete"
           /\ RecvStep(n, t, m.type = "complete" /\ m.b = t.b, [t EXCEPT !.pc = "policyIn", !.a = m.a])
  <2> DEFINE t2 == [t EXCEPT !.pc = "policyIn", !.a = m.a]
             good == m.type = "complete" /\ m.b = t.b
  <2>1. ASSUME inbox(n, t) # << >>, good PROVE HandshakeOK(t2) /\ t2.conn = t.conn
    <3>1. m \in Messages
      BY <2>1, takeOK
    <3>2. m.a \in Attempts
      BY <3>1 DEF Messages
    <3> HIDE DEF m
    <3> QED BY <1>1, <1>4, <3>2 DEF HandshakeOK, Pcs
  <2>2. RecvStep(n, t, good, t2) /\ UnderWay(t) /\ UnderWay(t2)
    BY <1>1, <1>4 DEF HandshakeOK, UnderWay
  <2> HIDE DEF t2, good
  <2> QED BY <1>1, <2>1, <2>2, RecvKeeps
<1>5. CASE /\ t.pc = "policyIn" /\ inbox(n, t) # << >>
           /\ \/ RecvPolicyDrops(n, t, m)
              \/ RecvStep(n, t, m.type = "policy", [t EXCEPT !.pc = "policyOut"])
  <2> DEFINE t2 == [t EXCEPT !.pc = "policyOut"]
             good == m.type = "policy"
  <2>1. CASE RecvPolicyDrops(n, t, m)
    BY <1>5, <2>1, DropKeeps DEF RecvPolicyDrops
  <2>2. CASE RecvStep(n, t, good, t2)
    <3>1. HandshakeOK(t2) /\ UnderWay(t2) /\ t2.conn = t.conn
      BY <1>1, <1>5 DEF HandshakeOK, UnderWay, Pcs
    <3> HIDE DEF t2, good
    <3> QED BY <1>1, <1>5, <2>2, <3>1, RecvKeeps DEF UnderWay
  <2> QED BY <1>5, <2>1, <2>2
<1>6. CASE t.pc = "policyIn" /\ RecvFails(n, t)
  BY <1>1, <1>6, RecvFailsKeeps DEF UnderWay
<1>7. CASE /\ t.pc = "policyOut"
           /\ LET out == Msg("policy", t.a, t.b, "resp")
              IN  \/ SendSucceeds(n, t) /\ adopt(n, t, acked(n), reached(n, out))
                  \/ SendFails(n, t, out) /\ UNCHANGED <<epoch, table>>
  <2> DEFINE out == Msg("policy", t.a, t.b, "resp")
  <2>1. out \in Messages
    BY <1>1, <1>7 DEF Messages, Msg, Types, Roles
  <2>2. t.a \in Attempts /\ t.b \in Attempts
    BY <1>1, <1>7
  <2> HIDE DEF out
  <2>3. CASE SendSucceeds(n, t) /\ adopt(n, t, acked(n), reached(n, out))
    <3>1. /\ MuxOK(reached(n, out)) /\ Grows(mux[Peer(n)], reached(n, out))
          /\ MuxOK(acked(n)) /\ Grows(mux[n], acked(n))
      BY <2>1, <2>3, reachedOK DEF SendSucceeds
    <3> QED BY <1>1, <1>7, <2>2, <2>3, <3>1, AdoptKeeps DEF UnderWay
  <2>4. CASE SendFails(n, t, out) /\ UNCHANGED <<epoch, table>>
    BY <1>1, <1>7, <2>1, <2>4, SendFailsKeeps DEF UnderWay
  <2> QED BY <1>7, <2>3, <2>4 DEF out
<1> QED BY <1>2, <1>3, <1>4, <1>5, <1>6, <1>7 DEF Respond

LEMMA ExpireKeeps ==
    ASSUME IInv, NEW n \in Node, NEW role, Expire(n, role)
    PROVE  IInv'
<1>1. PICK t \in tasks[n] :
        /\ t.kind # "pump" /\ UnderWay(t) /\ fail(n, t, mux[n], mux[Peer(n)])
        /\ UNCHANGED <<epoch, table>>
        /\ UNCHANGED budget \/ spend(n, "loss")
  BY DEF Expire, Sending, UnderWay
<1>2. budget' \subseteq budget
  BY <1>1 DEF spend
<1> QED BY <1>1, <1>2, MuxesAsTheyAre, FailKeeps

\* A step that changes the muxes and no goroutine.
LEMMA FramesKeep ==
    ASSUME IInv, NEW n \in Node, NEW mine, NEW theirs, become(n, mine, theirs, tasks[n]),
           UNCHANGED <<epoch, table>>, budget' \subseteq budget,
           MuxOK(mine), Grows(mux[n], mine),
           MuxOK(theirs), Grows(mux[Peer(n)], theirs)
    PROVE  IInv'
<1> DEFINE ts == tasks[n]
<1>1. /\ \A u \in ts : u \in tasks[n] \/ (HandshakeOK(u) /\ UnderWay(u) /\ u.conn \in DOMAIN mine.conns)
      /\ \A u \in tasks[n] : u.kind = "pump" \/ ~UnderWay(u) => u \in ts
      /\ become(n, mine, theirs, ts)
  OBVIOUS
<1> HIDE DEF ts
<1> QED BY <1>1, HandshakeKeeps

LEMMA RelayKeeps ==
    ASSUME IInv, NEW n \in Node, Relay(n)
    PROVE  IInv'
<1> DEFINE s == table[n]
           out == Msg("data", s.a, s.b, s.role)
<1>1. /\ s # NoSession /\ Roomy(n) /\ become(n, acked(n), reached(n, out), tasks[n])
      /\ UNCHANGED <<epoch, table, budget>>
  BY DEF Relay
<1>2. s \in Sessions
  BY <1>1 DEF IInv, Typed
<1>3. out \in Messages
  BY <1>2 DEF Sessions, Messages, Msg, Types, Roles
<1> HIDE DEF out
<1> QED BY <1>1, <1>3, reachedOK, FramesKeep

LEMMA LateFrameKeeps ==
    ASSUME IInv, NEW n \in Node, LateFrame(n)
    PROVE  IInv'
<1>1. PICK e \in Epochs : become(n, readFrame(mux[n], e), mux[Peer(n)], tasks[n])
  BY DEF LateFrame
<1>2. UNCHANGED <<epoch, table>> /\ budget' \subseteq budget /\ RoomFor(mux[n], e)
  BY DEF LateFrame, spend, RoomFor
<1>3. MuxOK(readFrame(mux[n], e)) /\ Grows(mux[n], readFrame(mux[n], e))
  BY <1>2, MuxesAsTheyAre, readFrameOK
<1> QED BY <1>1, <1>2, <1>3, MuxesAsTheyAre, FramesKeep

\* A restart leaves nothing of the node's own; the peer does not notice yet.
LEMMA RestartKeeps ==
    ASSUME IInv, NEW n \in Node, Restart(n)
    PROVE  IInv'
<1>1. PICK e \in Epochs : /\ spend(n, IF e = epoch[n] THEN "collide" ELSE "restart")
                          /\ epoch' = [epoch EXCEPT ![n] = e]
  BY DEF Restart
<1>2. become(n, EmptyMux, mux[Peer(n)], {}) /\ table' = [table EXCEPT ![n] = NoSession]
  BY DEF Restart
<1>3. epoch \in [Node -> Epochs] /\ table \in [Node -> Sessions \cup {NoSession}] /\ budget \subseteq Disturbances
  BY DEF IInv, Typed
<1>4. Frames(n) /\ table'[n] = NoSession
  <2>1. budget' \subseteq Disturbances
    BY <1>1, <1>3 DEF spend
  <2> QED BY <1>1, <1>2, <1>3, <2>1, Peers DEF Frames
<1>5. Inside(EmptyMux, {}, table'[n])
  BY DEF Inside, EmptyMux
<1> QED BY <1>2, <1>4, <1>5, EmptyMuxOK, MuxesAsTheyAre, BecomeKeeps

-----------------------------------------------------------------------------
(* The theorems.                                                           *)

LEMMA InitInv == Init => IInv
<1> SUFFICES ASSUME Init PROVE IInv
  OBVIOUS
<1>1. Typed
  BY DEF Init, Typed
<1>2. Muxes
  BY EmptyMuxOK DEF Init, Muxes
<1>3. Working /\ Closings /\ TableMatchesPumps
  BY DEF Init, Working, Closings, Inside, EmptyMux, TableMatchesPumps
<1> QED BY <1>1, <1>2, <1>3 DEF IInv

LEMMA NextInv == IInv /\ [Next]_vars => IInv'
<1> SUFFICES ASSUME IInv, [Next]_vars PROVE IInv'
  OBVIOUS
<1>1. CASE UNCHANGED vars
  BY <1>1 DEF vars, IInv, Typed, Muxes, Working, Closings, TableMatchesPumps, IsOpen
<1>2. CASE Next
  <2>1. PICK n \in Node :
            \/ SeedDial(n)
            \/ Accept(n)
            \/ \E k \in Kinds, c \in ConnIds : Run(n, k, c)
            \/ \E role \in {"init", "resp"} : Expire(n, role)
            \/ HandleConnect(n)
            \/ Relay(n)
            \/ LateFrame(n)
            \/ Restart(n)
    BY <1>2 DEF Next
  <2>2. CASE SeedDial(n)
    BY <2>2, DialKeeps DEF SeedDial
  <2>3. CASE Accept(n)
    BY <2>3, AcceptKeeps
  <2>4. ASSUME NEW k \in Kinds, NEW c \in ConnIds, Run(n, k, c) PROVE IInv'
    <3>1. PICK t \in tasks[n] :
            \/ Initiate(n, t) \/ Respond(n, t) \/ FinishClose(n, t)
            \/ FinishAdd(n, t) \/ PumpRecv(n, t) \/ PumpEnd(n, t)
      BY <2>4 DEF Run
    <3> QED BY <3>1, InitiateKeeps, RespondKeeps, FinishCloseKeeps, FinishAddKeeps,
               PumpRecvKeeps, PumpEndKeeps
  <2>5. CASE \E role \in {"init", "resp"} : Expire(n, role)
    BY <2>5, ExpireKeeps
  <2>6. CASE HandleConnect(n)
    BY <2>6, DialKeeps DEF HandleConnect
  <2>7. CASE Relay(n)
    BY <2>7, RelayKeeps
  <2>8. CASE LateFrame(n)
    BY <2>8, LateFrameKeeps
  <2>9. CASE Restart(n)
    BY <2>9, RestartKeeps
  <2> QED BY <2>1, <2>2, <2>3, <2>4, <2>5, <2>6, <2>7, <2>8, <2>9
<1> QED BY <1>1, <1>2

\* The inductive invariant of mux.go, handshake.go and the goroutines of
\* daemon.go: a mux is sound by itself, goroutines work on connections their
\* node knows, those inside Close have closed what they close, one at most is
\* in Table.Add, and the peer table agrees with the pumps.
THEOREM InvHolds == Spec => []IInv
BY InitInv, NextInv, PTL DEF Spec

LEMMA TypesFollow == IInv => TypeOK
<1> SUFFICES ASSUME IInv PROVE TypeOK
  OBVIOUS
<1>1. ASSUME NEW n \in Node
      PROVE  /\ mux[n].cur \in DOMAIN mux[n].conns \cup {0}
             /\ Len(mux[n].accepts) <= AcceptBacklog
             /\ \A c \in DOMAIN mux[n].conns :
                 /\ c \in ConnIds
                 /\ mux[n].conns[c].remote \in Epochs \cup {0}
                 /\ Len(mux[n].conns[c].inbox) <= InboxSize
  <2>1. MuxOK(mux[n])
    BY DEF IInv, Muxes
  <2>2. /\ DOMAIN mux[n].conns \subseteq ConnIds
        /\ mux[n].conns \in [DOMAIN mux[n].conns -> ConnType]
    BY <2>1, TableIn DEF MuxOK, MuxType
  <2>3. \A c \in DOMAIN mux[n].conns : mux[n].conns[c].remote \in Epochs \cup {0}
    BY <2>2 DEF ConnType
  <2> QED BY <2>1, <2>2, <2>3 DEF MuxOK
<1>2. \A n \in Node : \A t \in tasks[n] : t.kind \in Kinds /\ t.conn \in DOMAIN mux[n].conns
  BY DEF IInv, Working, TaskOK, HandshakeOK, Kinds
<1> QED BY <1>1, <1>2 DEF TypeOK, IInv, Typed

\* TypeOK in every reachable state: in particular acceptBacklog and inboxSize
\* hold whatever the peer sends, and no goroutine is left with a connection
\* that its node has forgotten.
THEOREM TypeCorrect == Spec => []TypeOK
BY InvHolds, TypesFollow, PTL

\* mux.peers holds every open connection to the peer, however Dial, the two
\* halves of Close and the epoch check of readLoop interleave; and a closed
\* one is in it only while a goroutine is inside its Close.
THEOREM OneOpen == Spec => []OneOpenConn
<1>1. IInv => OneOpenConn
  BY DEF IInv, Muxes, MuxOK, Closings, Inside, OneOpenConn, IsOpen
<1> QED BY <1>1, InvHolds, PTL

\* However sessions replace each other and pumps end late, the peer table
\* and the pumps agree: no dead entry without a pump that removes it, no live
\* session that the table does not show.
THEOREM TableIsTrue == Spec => []TableMatchesPumps
<1>1. IInv => TableMatchesPumps
  BY DEF IInv
<1> QED BY <1>1, InvHolds, PTL
=============================================================================
