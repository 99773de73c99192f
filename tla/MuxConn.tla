------------------------------ MODULE MuxConn ------------------------------
(***************************************************************************)
(* One direction of a muxConn pair (src/gandr/pkg/network/mux.go): the     *)
(* goroutines inside Send on one node, the readLoop and the Recv caller on *)
(* the other, and the best-effort datagram layer between them.             *)
(*                                                                         *)
(* A frame that was ever written may arrive any number of times, in any    *)
(* order, or never: net only grows, and a lost frame is one nobody reads.  *)
(***************************************************************************)
EXTENDS Integers, Sequences, FiniteSets

CONSTANTS
    Messages,         \* the msgIDs of the calls of Send (random, so distinct)
    Frags,            \* Frags[m]: the number of fragments m needs
    DedupeWindow,     \* dedupeWindow, 1024 in the code
    InboxSize,        \* inboxSize, 128 in the code
    MaxReassemblies,  \* maxReassemblies, 64 in the code
    SendAttempts,     \* sendAttempts, 5 in the code
    MaxDeliveries,    \* bound of the model: deliveries in one behaviour
    NoID              \* the zero of an unused slot of the dedupe ring

ASSUME FragsAssumption == Frags \in [Messages -> Nat \ {0}]
ASSUME WindowAssumption == DedupeWindow \in Nat \ {0}
ASSUME InboxAssumption == InboxSize \in Nat \ {0}
ASSUME ReasmAssumption == MaxReassemblies \in Nat \ {0}
ASSUME AttemptsAssumption == SendAttempts \in Nat \ {0}
ASSUME DeliveriesAssumption == MaxDeliveries \in Nat
ASSUME NoIDAssumption == NoID \notin Messages

VARIABLES
    result,      \* per Send: not called, in pending, or what it returned
    attempt,     \* per Send: transmissions made so far
    signal,      \* per Send: the one-slot signal channel is full
    connClosed,  \* the sender's muxConn was closed
    net,         \* every frame ever written
    inbox,       \* the receiver's inbox channel
    reasm,       \* the receiver's partial messages: id -> fragments held
    reasmAge,    \* the ids in reasm, oldest creation time first
    ids,         \* dedupe.ids
    order,       \* dedupe.order, a ring
    next,        \* dedupe.next
    delivered    \* history: everything ever put into the inbox, in order

sendVars == <<result, attempt, signal, connClosed>>
dedupeVars == <<ids, order, next>>
recvVars == <<inbox, reasm, reasmAge, ids, order, next, delivered>>
vars == <<result, attempt, signal, connClosed, net, inbox, reasm, reasmAge,
          ids, order, next, delivered>>

Pending == {"writing", "waiting"}
Results == Pending \cup {"idle", "ok", "timeout", "closed", "cancelled", "failed"}

DataFrame(m, i) == [type |-> "data", id |-> m, frag |-> i]
AckFrame(m) == [type |-> "ack", id |-> m, frag |-> 0]
DataFrames(m) == {DataFrame(m, i) : i \in 1..Frags[m]}
Frames == (UNION {DataFrames(m) : m \in Messages}) \cup {AckFrame(m) : m \in Messages}

Slots == 0..(DedupeWindow - 1)

Init ==
    /\ result = [m \in Messages |-> "idle"]
    /\ attempt = [m \in Messages |-> 0]
    /\ signal = [m \in Messages |-> FALSE]
    /\ connClosed = FALSE
    /\ net = {}
    /\ inbox = <<>>
    /\ reasm = [m \in Messages |-> {}]
    /\ reasmAge = <<>>
    /\ ids = {}
    /\ order = [s \in Slots |-> NoID]
    /\ next = 0
    /\ delivered = <<>>

-----------------------------------------------------------------------------
(* The sender: muxConn.Send and the retransmission loop of transmit.       *)

\* Send gives the message an id and transmit registers its pending signal.
Send(m) ==
    /\ result[m] = "idle"
    /\ result' = [result EXCEPT ![m] = "writing"]
    /\ UNCHANGED <<attempt, signal, connClosed, net, recvVars>>

\* Mutant of Write: the attempt is not counted.
WriteUncounted(m) ==
    /\ result[m] = "writing"
    /\ result' = [result EXCEPT ![m] = "waiting"]
    /\ net' = net \cup DataFrames(m)
    /\ UNCHANGED <<attempt, signal, connClosed, recvVars>>

\* One call of write(): every fragment goes out and the timer is armed.
Write(m) ==
    /\ result[m] = "writing"
    /\ result' = [result EXCEPT ![m] = "waiting"]
    /\ attempt' = [attempt EXCEPT ![m] = @ + 1]
    /\ net' = net \cup DataFrames(m)
    /\ UNCHANGED <<signal, connClosed, recvVars>>

\* The write fails at some fragment; the ones before it have left.
WriteError(m) ==
    /\ result[m] = "writing"
    /\ result' = [result EXCEPT ![m] = "failed"]
    /\ \E n \in 0..(Frags[m] - 1) : net' = net \cup {DataFrame(m, i) : i \in 1..n}
    /\ UNCHANGED <<attempt, signal, connClosed, recvVars>>

\* The timer fires: go round the loop, or give up after sendAttempts.
Timeout(m) ==
    /\ result[m] = "waiting"
    /\ result' = [result EXCEPT ![m] =
                     IF attempt[m] < SendAttempts THEN "writing" ELSE "timeout"]
    /\ UNCHANGED <<attempt, signal, connClosed, net, recvVars>>

\* The loop's select picks the signal channel, the closed channel or the
\* context: with several ready, Go picks any of them.
Return(m, r) ==
    /\ result[m] = "waiting"
    /\ \/ r = "ok" /\ signal[m]
       \/ r = "closed" /\ connClosed
       \/ r = "cancelled"
    /\ result' = [result EXCEPT ![m] = r]
    /\ UNCHANGED <<attempt, signal, connClosed, net, recvVars>>

\* muxConn.Close on the sending node: local state only, nothing on the wire.
Close ==
    /\ ~connClosed
    /\ connClosed' = TRUE
    /\ UNCHANGED <<result, attempt, signal, net, recvVars>>

\* The sending node's readLoop gets an acknowledgement.
handleSignal(m) ==
    /\ AckFrame(m) \in net
    /\ result[m] \in Pending
    /\ ~signal[m]
    /\ signal' = [signal EXCEPT ![m] = TRUE]
    /\ UNCHANGED <<result, attempt, connClosed, net, recvVars>>

-----------------------------------------------------------------------------
(* The receiver: handleData with reassemble, gcReassemblies and dedupe.    *)

\* Mutants of dedupe.add: next does not wrap; the newest id is forgotten in
\* place of the oldest.
dedupeAddNoWrap(m) ==
    /\ ids' = (ids \ {order[next]}) \cup {m}
    /\ order' = [order EXCEPT ![next] = m]
    /\ next' = next + 1
dedupeAddDropsNewest(m) ==
    /\ ids' = (ids \ {order[(next + DedupeWindow - 1) % DedupeWindow]}) \cup {m}
    /\ order' = [order EXCEPT ![next] = m]
    /\ next' = (next + 1) % DedupeWindow

\* dedupe.add(m): the slot at next is overwritten and its id forgotten.
dedupeAdd(m) ==
    /\ ids' = (ids \ {order[next]}) \cup {m}
    /\ order' = [order EXCEPT ![next] = m]
    /\ next' = (next + 1) % DedupeWindow

\* Mutant of gcReassemblies: only expiry, no eviction at capacity.
gcExpiredOnly(k) == SubSeq(reasmAge, k + 1, Len(reasmAge))

\* The ids left by gcReassemblies, oldest first: the expired ones (the
\* oldest k, for a k that the clock decides) are dropped, then the oldest
\* remaining one while the table is full.
gcReassemblies(k) ==
    LET young == SubSeq(reasmAge, k + 1, Len(reasmAge))
    IN  IF Len(young) < MaxReassemblies THEN young ELSE Tail(young)

\* The partial messages after fragment i of m was recorded, as a pair
\* <<reasm, reasmAge>>: gcReassemblies runs only when m is new.
reassemble(m, i, k) ==
    IF reasm[m] # {}
    THEN <<[reasm EXCEPT ![m] = @ \cup {i}], reasmAge>>
    ELSE LET kept == gcReassemblies(k)
         IN  <<[x \in Messages |->
                  IF x = m THEN {i}
                  ELSE IF \E j \in 1..Len(kept) : kept[j] = x THEN reasm[x]
                  ELSE {}],
               Append(kept, m)>>

\* A fragment of a message that was delivered before: only acknowledge.
handleDuplicate(m, i) ==
    /\ DataFrame(m, i) \in net
    /\ m \in ids
    /\ net' = net \cup {AckFrame(m)}
    /\ UNCHANGED <<sendVars, inbox, reasm, reasmAge, dedupeVars, delivered>>

\* Mutant of handlePartial: a complete message is acknowledged although the
\* inbox had no room for it.
handlePartialAcks(m, i, k) ==
    /\ DataFrame(m, i) \in net
    /\ m \notin ids
    /\ LET r == reassemble(m, i, k)
       IN  /\ r[1][m] # 1..Frags[m] \/ Len(inbox) = InboxSize
           /\ reasm' = r[1]
           /\ reasmAge' = r[2]
           /\ net' = net \cup (IF r[1][m] = 1..Frags[m] THEN {AckFrame(m)} ELSE {})
    /\ UNCHANGED <<sendVars, inbox, dedupeVars, delivered>>

\* A fragment that leaves its message incomplete, or completes it while the
\* inbox is full: the reassembly state is kept and nothing acknowledged.
handlePartial(m, i, k) ==
    /\ DataFrame(m, i) \in net
    /\ m \notin ids
    /\ LET r == reassemble(m, i, k)
       IN  /\ r[1][m] # 1..Frags[m] \/ Len(inbox) = InboxSize
           /\ reasm' = r[1]
           /\ reasmAge' = r[2]
    /\ UNCHANGED <<sendVars, net, inbox, dedupeVars, delivered>>

\* Mutants of handleComplete: the fragments are not forgotten; a message that
\* dedupe knows is delivered again.
handleCompleteKeeps(m, i, k) ==
    /\ DataFrame(m, i) \in net
    /\ m \notin ids
    /\ Len(inbox) < InboxSize
    /\ Len(delivered) < MaxDeliveries
    /\ LET r == reassemble(m, i, k)
       IN  r[1][m] = 1..Frags[m] /\ reasm' = r[1] /\ reasmAge' = r[2]
    /\ inbox' = Append(inbox, m)
    /\ dedupeAdd(m)
    /\ net' = net \cup {AckFrame(m)}
    /\ delivered' = Append(delivered, m)
    /\ UNCHANGED sendVars
handleCompleteAgain(m, i, k) ==
    /\ DataFrame(m, i) \in net
    /\ Frags[m] = 1
    /\ Len(inbox) < InboxSize
    /\ Len(delivered) < MaxDeliveries
    /\ inbox' = Append(inbox, m)
    /\ dedupeAdd(m)
    /\ net' = net \cup {AckFrame(m)}
    /\ delivered' = Append(delivered, m)
    /\ UNCHANGED <<sendVars, reasm, reasmAge>>

\* A fragment that completes its message while the inbox has room: deliver,
\* remember, forget the fragments, acknowledge.
handleComplete(m, i, k) ==
    /\ DataFrame(m, i) \in net
    /\ m \notin ids
    /\ Len(inbox) < InboxSize
    /\ Len(delivered) < MaxDeliveries
    /\ LET r == reassemble(m, i, k)
       IN  /\ r[1][m] = 1..Frags[m]
           /\ reasm' = [r[1] EXCEPT ![m] = {}]
           /\ \E p \in 1..Len(r[2]) :
                  /\ r[2][p] = m
                  /\ reasmAge' = SubSeq(r[2], 1, p - 1) \o SubSeq(r[2], p + 1, Len(r[2]))
    /\ inbox' = Append(inbox, m)
    /\ dedupeAdd(m)
    /\ net' = net \cup {AckFrame(m)}
    /\ delivered' = Append(delivered, m)
    /\ UNCHANGED sendVars

\* muxConn.Recv takes the oldest message from the inbox.
Recv ==
    /\ inbox # <<>>
    /\ inbox' = Tail(inbox)
    /\ UNCHANGED <<sendVars, net, reasm, reasmAge, dedupeVars, delivered>>

handleData(m) ==
    \E i \in 1..Frags[m] :
        \/ handleDuplicate(m, i)
        \/ \E k \in 0..Len(reasmAge) : handlePartial(m, i, k)
        \/ \E k \in 0..Len(reasmAge) : handleComplete(m, i, k)

Next ==
    \/ Close
    \/ Recv
    \/ \E m \in Messages :
        \/ Send(m)
        \/ Write(m)
        \/ WriteError(m)
        \/ Timeout(m)
        \/ \E r \in {"ok", "closed", "cancelled"} : Return(m, r)
        \/ handleSignal(m)
        \/ handleData(m)

Spec == Init /\ [][Next]_vars

\* The runtime always fires an armed timer and runs a goroutine whose
\* channel is ready; nothing is assumed of the network or of Recv's caller.
FairSpec ==
    /\ Spec
    /\ \A m \in Messages : WF_vars(Write(m) \/ WriteError(m)) /\ WF_vars(Timeout(m))

-----------------------------------------------------------------------------
(* Properties.                                                             *)

\* Every variable holds a value of its kind: in particular dedupe.next stays
\* an index of the ring.
TypeOK ==
    /\ result \in [Messages -> Results]
    /\ attempt \in [Messages -> Nat]
    /\ signal \in [Messages -> BOOLEAN]
    /\ connClosed \in BOOLEAN
    /\ net \subseteq Frames
    /\ inbox \in Seq(Messages)
    /\ reasm \in [Messages -> SUBSET Nat]
    /\ reasmAge \in Seq(Messages)
    /\ ids \subseteq Messages
    /\ order \in [Slots -> Messages \cup {NoID}]
    /\ next \in Slots
    /\ delivered \in Seq(Messages)

\* handleData acknowledges a message only once it is in the inbox, so a Send
\* that returns nil has had its message delivered, whatever was lost,
\* repeated or reordered, and however full the inbox was meanwhile.
AckedIsDelivered ==
    \A m \in Messages :
        result[m] = "ok" => \E i \in 1..Len(delivered) : delivered[i] = m

\* The dedupe ring does what dedupeWindow says: the same message reaches the
\* inbox a second time only after at least DedupeWindow other deliveries.
NoEarlyDuplicate ==
    \A i, j \in 1..Len(delivered) :
        i < j /\ delivered[i] = delivered[j] => j - i > DedupeWindow

\* The position in delivered whose message slot s of the ring holds; the
\* slot has never been written while the position is not positive.
position(s) ==
    IF s < next THEN Len(delivered) - next + s + 1
    ELSE Len(delivered) - next - DedupeWindow + s + 1

\* The ring is the tail of the delivery history: the slots before next hold
\* the newest messages, the ones from next on the ones before those.
RingIsHistory ==
    \A s \in Slots :
        order[s] = IF position(s) >= 1 THEN delivered[position(s)] ELSE NoID

\* The map that dedupe.has consults and the ring that evicts from it agree.
IdsMatchRing == ids = {order[s] : s \in Slots} \ {NoID}

\* An id is known as delivered only if it was: for the dedupe map, for the
\* acknowledgements on the wire, for the pending signals and for the results.
AckEvidence ==
    \A m \in Messages :
        \/ m \in ids
        \/ AckFrame(m) \in net
        \/ signal[m]
        \/ result[m] = "ok"
        => \E i \in 1..Len(delivered) : delivered[i] = m

\* Only a message that was submitted is on the wire.
SubmittedOnly ==
    \A m \in Messages : \A i \in 1..Frags[m] :
        DataFrame(m, i) \in net => result[m] # "idle"

\* transmit makes at most sendAttempts transmissions, and goes round its loop
\* only while one is left.
RetriesBounded ==
    \A m \in Messages :
        /\ attempt[m] <= SendAttempts
        /\ result[m] = "idle" => attempt[m] = 0
        /\ result[m] = "writing" => attempt[m] < SendAttempts

\* The inductive invariant behind AckedIsDelivered, NoEarlyDuplicate and the
\* refinement.
IInv ==
    /\ TypeOK
    /\ RingIsHistory
    /\ IdsMatchRing
    /\ NoEarlyDuplicate
    /\ AckEvidence
    /\ SubmittedOnly
    /\ RetriesBounded

\* The receiver's memory is bounded: the inbox by inboxSize, the partial
\* messages by maxReassemblies (gcReassemblies makes room before it adds).
ReceiverBounded ==
    /\ Len(inbox) <= InboxSize
    /\ Len(reasmAge) <= MaxReassemblies

\* reasm and the creation times describe the same set of partial messages,
\* none of them one that dedupe already knows as delivered.
ReassemblyConsistent ==
    /\ \A m \in Messages :
           /\ reasm[m] # {} <=> \E j \in 1..Len(reasmAge) : reasmAge[j] = m
           /\ m \in ids => reasm[m] = {}
    /\ \A j, l \in 1..Len(reasmAge) : reasmAge[j] = reasmAge[l] => j = l

\* A Send never blocks for ever: transmit returns after at most
\* sendAttempts timeouts even if no datagram ever arrives.
SendReturns ==
    \A m \in Messages : result[m] \in Pending ~> result[m] \notin Pending

\* The connection implements the promise of network.Conn: the four ways to
\* fail are one to the caller.
Abstract == INSTANCE EffectivelyOnce WITH
    Window <- DedupeWindow,
    result <- [m \in Messages |->
                  IF result[m] \in {"idle", "ok"} THEN result[m]
                  ELSE IF result[m] \in Pending THEN "sending"
                  ELSE "error"]

\* Every step of the mux is a step of EffectivelyOnce or none: deduplication
\* and acknowledgement together give "effectively once".
ImplementsEffectivelyOnce == Abstract!Spec
=============================================================================
