-------------------------- MODULE MuxConnProofs --------------------------
(***************************************************************************)
(* Theorems about MuxConn for every set of messages, every fragmentation   *)
(* and every size of the window, the inbox and the reassembly table.       *)
(***************************************************************************)
EXTENDS MuxConn, SequenceTheorems, TLAPS

-----------------------------------------------------------------------------
(* What the helpers return.                                                *)

\* The slots of the ring, and the slot after one, in linear arithmetic: the
\* % of dedupe.add wraps at dedupeWindow and nowhere else.
LEMMA NextSlot ==
    ASSUME NEW s \in Slots
    PROVE  /\ DedupeWindow \in Nat /\ DedupeWindow > 0
           /\ s \in Nat /\ s < DedupeWindow
           /\ (s + 1) % DedupeWindow = IF s + 1 = DedupeWindow THEN 0 ELSE s + 1
           /\ (s + 1) % DedupeWindow \in Slots
BY WindowAssumption DEF Slots

\* What gcReassemblies keeps is a suffix of the table, with room for one
\* more entry if the table was within maxReassemblies.
LEMMA GcSuffix ==
    ASSUME NEW k \in 0..Len(reasmAge), reasmAge \in Seq(Messages)
    PROVE  /\ gcReassemblies(k) \in Seq(Messages)
           /\ \E d \in 0..Len(reasmAge) :
                 /\ Len(gcReassemblies(k)) = Len(reasmAge) - d
                 /\ \A j \in 1..Len(gcReassemblies(k)) :
                       gcReassemblies(k)[j] = reasmAge[j + d]
           /\ Len(reasmAge) <= MaxReassemblies => Len(gcReassemblies(k)) < MaxReassemblies
<1> DEFINE n == Len(reasmAge)
           young == SubSeq(reasmAge, k + 1, n)
<1>1. n \in Nat /\ k \in Nat /\ k <= n
  BY LenProperties
<1>2. \A j \in (k + 1)..n : reasmAge[j] \in Messages
  BY <1>1, ElementOfSeq
<1>3. /\ young \in Seq(Messages)
      /\ Len(young) = IF k + 1 <= n THEN n - (k + 1) + 1 ELSE 0
      /\ \A j \in 1..(n - (k + 1) + 1) : young[j] = reasmAge[k + 1 + j - 1]
  <2> HIDE DEF n
  <2> QED
    BY <1>1, <1>2, SubSeqProperties
<1> HIDE DEF young, n
<1>4. Len(young) = n - k /\ \A j \in 1..Len(young) : young[j] = reasmAge[j + k]
  BY <1>1, <1>3
<1>5. CASE Len(young) < MaxReassemblies
  <2>1. gcReassemblies(k) = young
    BY <1>5 DEF gcReassemblies, young, n
  <2> QED
    BY <2>1, <1>1, <1>3, <1>4, <1>5 DEF n
<1>6. CASE ~(Len(young) < MaxReassemblies)
  <2>1. gcReassemblies(k) = Tail(young)
    BY <1>6 DEF gcReassemblies, young, n
  <2>2. Len(young) > 0 /\ young # <<>>
    BY <1>6, <1>3, LenProperties, EmptySeq, ReasmAssumption
  <2>3. /\ Tail(young) \in Seq(Messages)
        /\ Len(Tail(young)) = Len(young) - 1
        /\ \A j \in 1..Len(Tail(young)) : Tail(young)[j] = young[j + 1]
    BY <2>2, <1>3, HeadTailProperties
  <2>4. k + 1 \in 0..n /\ Len(Tail(young)) = n - (k + 1)
    BY <2>2, <2>3, <1>1, <1>4
  <2>5. \A j \in 1..Len(Tail(young)) : Tail(young)[j] = reasmAge[j + (k + 1)]
    BY <2>3, <2>4, <1>1, <1>4
  <2>6. n <= MaxReassemblies => Len(Tail(young)) < MaxReassemblies
    BY <2>4, <1>1, ReasmAssumption
  <2> QED
    BY <2>1, <2>3, <2>4, <2>5, <2>6 DEF n
<1> QED
  BY <1>5, <1>6

\* Cutting one entry out of a sequence.
LEMMA CutEntry ==
    ASSUME NEW seq \in Seq(Messages), NEW p \in 1..Len(seq)
    PROVE  LET cut == SubSeq(seq, 1, p - 1) \o SubSeq(seq, p + 1, Len(seq))
           IN  /\ cut \in Seq(Messages)
               /\ Len(cut) = Len(seq) - 1
               /\ \A j \in 1..Len(cut) : cut[j] = IF j < p THEN seq[j] ELSE seq[j + 1]
<1> DEFINE n == Len(seq)
           a == SubSeq(seq, 1, p - 1)
           b == SubSeq(seq, p + 1, n)
<1>1. n \in Nat /\ p \in Nat /\ 1 <= p /\ p <= n /\ \A j \in 1..n : seq[j] \in Messages
  BY LenProperties, ElementOfSeq
<1> HIDE DEF n
<1>2. /\ a \in Seq(Messages)
      /\ Len(a) = IF 1 <= p - 1 THEN (p - 1) - 1 + 1 ELSE 0
      /\ \A j \in 1..((p - 1) - 1 + 1) : a[j] = seq[1 + j - 1]
  BY <1>1, SubSeqProperties
<1>3. /\ b \in Seq(Messages)
      /\ Len(b) = IF p + 1 <= n THEN n - (p + 1) + 1 ELSE 0
      /\ \A j \in 1..(n - (p + 1) + 1) : b[j] = seq[p + 1 + j - 1]
  BY <1>1, SubSeqProperties
<1> HIDE DEF a, b
<1>4. /\ a \o b \in Seq(Messages)
      /\ Len(a \o b) = Len(a) + Len(b)
      /\ \A j \in 1..(Len(a) + Len(b)) :
            (a \o b)[j] = IF j <= Len(a) THEN a[j] ELSE b[j - Len(a)]
  BY <1>2, <1>3, ConcatProperties
<1>5. Len(a) = p - 1 /\ Len(b) = n - p
  BY <1>1, <1>2, <1>3
<1>6. \A j \in 1..(n - 1) : (a \o b)[j] = IF j < p THEN seq[j] ELSE seq[j + 1]
  <2> SUFFICES ASSUME NEW j \in 1..(n - 1)
               PROVE  (a \o b)[j] = IF j < p THEN seq[j] ELSE seq[j + 1]
    OBVIOUS
  <2>1. CASE j < p
    BY <2>1, <1>1, <1>2, <1>4, <1>5
  <2>2. CASE ~(j < p)
    <3>1. j - (p - 1) \in 1..(n - (p + 1) + 1) /\ p + 1 + (j - (p - 1)) - 1 = j + 1
      BY <2>2, <1>1
    <3>2. b[j - (p - 1)] = seq[j + 1]
      BY <3>1, <1>3
    <3>3. (a \o b)[j] = b[j - (p - 1)]
      BY <2>2, <1>1, <1>4, <1>5
    <3> QED
      BY <2>2, <3>2, <3>3
  <2> QED
    BY <2>1, <2>2
<1>7. Len(a \o b) = n - 1
  BY <1>1, <1>4, <1>5
<1> QED
  BY <1>4, <1>6, <1>7 DEF a, b, n

\* reassemble keeps the types of the table.
LEMMA ReassembleType ==
    ASSUME TypeOK, NEW m \in Messages, NEW i \in 1..Frags[m], NEW k \in 0..Len(reasmAge)
    PROVE  /\ reassemble(m, i, k)[1] \in [Messages -> SUBSET Nat]
           /\ reassemble(m, i, k)[2] \in Seq(Messages)
<1>1. i \in Nat
  BY FragsAssumption
<1>2. gcReassemblies(k) \in Seq(Messages)
  BY GcSuffix DEF TypeOK
<1>3. CASE reasm[m] # {}
  BY <1>1, <1>3 DEF reassemble, TypeOK
<1>4. CASE reasm[m] = {}
  <2>1. Append(gcReassemblies(k), m) \in Seq(Messages)
    BY <1>2, AppendProperties
  <2> QED
    BY <1>1, <1>4, <2>1 DEF reassemble, TypeOK
<1> QED
  BY <1>3, <1>4

-----------------------------------------------------------------------------
(* Type correctness.                                                       *)

\* A step of handleComplete in pieces: what it does to the table's ages.
LEMMA CompleteAges ==
    ASSUME TypeOK, NEW m \in Messages, NEW i \in 1..Frags[m],
           NEW k \in 0..Len(reasmAge), handleComplete(m, i, k)
    PROVE  \E p \in 1..Len(reassemble(m, i, k)[2]) :
              /\ reassemble(m, i, k)[2][p] = m
              /\ reasmAge' \in Seq(Messages)
              /\ Len(reasmAge') = Len(reassemble(m, i, k)[2]) - 1
              /\ \A j \in 1..Len(reasmAge') :
                    reasmAge'[j] = IF j < p THEN reassemble(m, i, k)[2][j]
                                   ELSE reassemble(m, i, k)[2][j + 1]
<1> DEFINE ages == reassemble(m, i, k)[2]
<1>1. ages \in Seq(Messages)
  BY ReassembleType
<1>2. PICK p \in 1..Len(ages) :
         /\ ages[p] = m
         /\ reasmAge' = SubSeq(ages, 1, p - 1) \o SubSeq(ages, p + 1, Len(ages))
  BY DEF handleComplete
<1> HIDE DEF ages
<1>3. QED
  <2>1. /\ reasmAge' \in Seq(Messages)
        /\ Len(reasmAge') = Len(ages) - 1
        /\ \A j \in 1..Len(reasmAge') :
              reasmAge'[j] = IF j < p THEN ages[j] ELSE ages[j + 1]
    BY <1>1, <1>2, CutEntry
  <2> QED
    BY <1>2, <2>1 DEF ages

\* The type invariant is inductive.
LEMMA TypeStep ==
    ASSUME TypeOK, [Next]_vars
    PROVE  TypeOK'
<1> USE FragsAssumption, AttemptsAssumption DEF TypeOK, Results, Pending
<1>1. CASE Close
  BY <1>1 DEF Close, recvVars
<1>2. CASE Recv
  <2>1. Tail(inbox) \in Seq(Messages)
    BY <1>2, HeadTailProperties DEF Recv
  <2> QED
    BY <1>2, <2>1 DEF Recv, sendVars, dedupeVars
<1>3. ASSUME NEW m \in Messages, Send(m)
      PROVE  TypeOK'
  BY <1>3 DEF Send, recvVars
<1>4. ASSUME NEW m \in Messages, Write(m)
      PROVE  TypeOK'
  <2>1. net' \subseteq Frames
    BY <1>4 DEF Write, Frames
  <2> QED
    BY <1>4, <2>1 DEF Write, recvVars
<1>5. ASSUME NEW m \in Messages, WriteError(m)
      PROVE  TypeOK'
  <2>1. net' \subseteq Frames
    <3>1. PICK n \in 0..(Frags[m] - 1) : net' = net \cup {DataFrame(m, i) : i \in 1..n}
      BY <1>5 DEF WriteError
    <3>2. 1..n \subseteq 1..Frags[m]
      BY <3>1
    <3>3. {DataFrame(m, i) : i \in 1..n} \subseteq DataFrames(m)
      BY <3>2 DEF DataFrames
    <3> QED
      BY <3>1, <3>3 DEF Frames
  <2> QED
    BY <1>5, <2>1 DEF WriteError, recvVars
<1>6. ASSUME NEW m \in Messages, Timeout(m)
      PROVE  TypeOK'
  BY <1>6 DEF Timeout, recvVars
<1>7. ASSUME NEW m \in Messages, NEW r \in {"ok", "closed", "cancelled"}, Return(m, r)
      PROVE  TypeOK'
  BY <1>7 DEF Return, recvVars
<1>8. ASSUME NEW m \in Messages, handleSignal(m)
      PROVE  TypeOK'
  BY <1>8 DEF handleSignal, recvVars
<1>9. ASSUME NEW m \in Messages, NEW i \in 1..Frags[m], handleDuplicate(m, i)
      PROVE  TypeOK'
  <2>1. net' \subseteq Frames
    BY <1>9 DEF handleDuplicate, Frames
  <2> QED
    BY <1>9, <2>1 DEF handleDuplicate, sendVars, dedupeVars
<1>10. ASSUME NEW m \in Messages, NEW i \in 1..Frags[m], NEW k \in 0..Len(reasmAge),
              handlePartial(m, i, k)
       PROVE  TypeOK'
  <2>1. reasm' \in [Messages -> SUBSET Nat] /\ reasmAge' \in Seq(Messages)
    BY <1>10, ReassembleType DEF handlePartial
  <2> QED
    BY <1>10, <2>1 DEF handlePartial, sendVars, dedupeVars
<1>11. ASSUME NEW m \in Messages, NEW i \in 1..Frags[m], NEW k \in 0..Len(reasmAge),
              handleComplete(m, i, k)
       PROVE  TypeOK'
  <2>1. reasmAge' \in Seq(Messages)
    BY <1>11, CompleteAges
  <2>2. reasm' \in [Messages -> SUBSET Nat]
    <3>1. reassemble(m, i, k)[1] \in [Messages -> SUBSET Nat]
      BY ReassembleType
    <3> QED
      BY <1>11, <3>1 DEF handleComplete
  <2>3. net' \subseteq Frames
    BY <1>11 DEF handleComplete, Frames
  <2>4. inbox' \in Seq(Messages) /\ delivered' \in Seq(Messages)
    BY <1>11, AppendProperties DEF handleComplete
  <2>5. ids' \subseteq Messages /\ order' \in [Slots -> Messages \cup {NoID}] /\ next' \in Slots
    BY <1>11, NextSlot DEF handleComplete, dedupeAdd
  <2> QED
    BY <1>11, <2>1, <2>2, <2>3, <2>4, <2>5 DEF handleComplete, sendVars
<1>12. CASE UNCHANGED vars
  BY <1>12 DEF vars
<1> QED
  BY <1>1, <1>2, <1>3, <1>4, <1>5, <1>6, <1>7, <1>8, <1>9, <1>10, <1>11, <1>12
     DEF Next, handleData

\* The initial state is well typed.
LEMMA TypeInit == Init => TypeOK
<1> SUFFICES ASSUME Init PROVE TypeOK
  OBVIOUS
<1>1. next \in Slots
  BY WindowAssumption DEF Init, Slots
<1>2. result \in [Messages -> Results] /\ connClosed \in BOOLEAN
  BY DEF Init, Results
<1>3. inbox \in Seq(Messages) /\ reasmAge \in Seq(Messages) /\ delivered \in Seq(Messages)
  BY EmptySeq DEF Init
<1>4. signal \in [Messages -> BOOLEAN] /\ reasm \in [Messages -> SUBSET Nat]
  BY DEF Init
<1> QED
  BY <1>1, <1>2, <1>3, <1>4 DEF Init, TypeOK

\* The type invariant holds in every behaviour.
THEOREM TypeCorrect == Spec => []TypeOK
<1>1. TypeOK /\ [Next]_vars => TypeOK'
  BY TypeStep
<1> QED
  BY <1>1, TypeInit, PTL DEF Spec

-----------------------------------------------------------------------------
(* The dedupe ring.                                                        *)

\* Every position of the last DedupeWindow deliveries is held by a slot.
LEMMA RecentIsInRing ==
    ASSUME TypeOK, RingIsHistory, NEW i \in 1..Len(delivered),
           i > Len(delivered) - DedupeWindow
    PROVE  \E s \in Slots : order[s] = delivered[i]
<1> DEFINE n == Len(delivered)
<1>0. n \in Nat
  BY LenProperties DEF TypeOK
<1>1. /\ n \in Nat /\ next \in Nat /\ next < DedupeWindow /\ DedupeWindow \in Nat
      /\ i \in Nat /\ 1 <= i /\ i <= n
  <2>1. next \in Nat /\ next < DedupeWindow /\ DedupeWindow \in Nat
    BY NextSlot DEF TypeOK
  <2> QED
    BY <1>0, <2>1
<1>2. CASE i > n - next
  <2> DEFINE s == i - n + next - 1
  <2>1. s \in Slots /\ position(s) = i
    BY <1>1, <1>2 DEF Slots, position
  <2> QED
    BY <2>1, <1>1 DEF RingIsHistory
<1>3. CASE ~(i > n - next)
  <2> DEFINE s == i - n + next + DedupeWindow - 1
  <2>1. s \in Slots /\ position(s) = i
    BY <1>1, <1>3 DEF Slots, position
  <2> QED
    BY <2>1, <1>1 DEF RingIsHistory
<1> QED
  BY <1>2, <1>3

\* A message that dedupe.has does not know is not among the last
\* DedupeWindow deliveries.
LEMMA UnknownIsNotRecent ==
    ASSUME IInv, NEW m \in Messages, m \notin ids,
           NEW i \in 1..Len(delivered), delivered[i] = m
    PROVE  i <= Len(delivered) - DedupeWindow
<1>1. Len(delivered) \in Nat /\ DedupeWindow \in Nat
  BY LenProperties, WindowAssumption DEF IInv, TypeOK
<1>2. SUFFICES ASSUME i > Len(delivered) - DedupeWindow
               PROVE  FALSE
  BY <1>1
<1>3. PICK s \in Slots : order[s] = m
  BY <1>2, RecentIsInRing DEF IInv
<1> QED
  BY <1>3, NoIDAssumption DEF IInv, IdsMatchRing

\* What a completed message does to the history and to the ring.
LEMMA AddToRing ==
    ASSUME IInv, NEW m \in Messages, m \notin ids,
           delivered' = Append(delivered, m), dedupeAdd(m)
    PROVE  RingIsHistory' /\ IdsMatchRing' /\ NoEarlyDuplicate'
<1> DEFINE n == Len(delivered)
<1> USE DEF IInv
<1>1. /\ DedupeWindow \in Nat /\ DedupeWindow > 0
      /\ next \in Nat /\ next < DedupeWindow
      /\ next' = IF next + 1 = DedupeWindow THEN 0 ELSE next + 1
      /\ \A s \in Slots : s \in Nat /\ s < DedupeWindow
  BY NextSlot DEF TypeOK, dedupeAdd
<1>2. /\ n \in Nat
      /\ Len(delivered') = n + 1
      /\ delivered'[n + 1] = m
      /\ \A i \in 1..n : delivered'[i] = delivered[i] /\ delivered'[i] \in Messages
  BY AppendProperties, LenProperties, ElementOfSeq DEF TypeOK
<1>3. /\ order' = [order EXCEPT ![next] = m]
      /\ order \in [Slots -> Messages \cup {NoID}]
      /\ next \in Slots
  BY DEF dedupeAdd, TypeOK
<1> HIDE DEF n
<1>4. NoEarlyDuplicate'
  <2> SUFFICES ASSUME NEW i \in 1..(n + 1), NEW j \in 1..(n + 1),
                      i < j, delivered'[i] = delivered'[j]
               PROVE  j - i > DedupeWindow
    BY <1>2 DEF NoEarlyDuplicate
  <2>1. CASE j <= n
    BY <2>1, <1>1, <1>2 DEF NoEarlyDuplicate, n
  <2>2. CASE j = n + 1
    <3>1. i \in 1..n /\ delivered[i] = m
      BY <2>2, <1>2
    <3>2. i <= n - DedupeWindow
      BY <3>1, UnknownIsNotRecent DEF n
    <3> QED
      BY <2>2, <3>2, <1>1, <1>2
  <2> QED
    BY <2>1, <2>2, <1>2
<1>5. RingIsHistory'
  <2> SUFFICES ASSUME NEW s \in Slots
               PROVE  order'[s] = IF position(s)' >= 1 THEN delivered'[position(s)'] ELSE NoID
    BY DEF RingIsHistory
  <2>1. s \in Nat /\ s < DedupeWindow
    BY <1>1
  <2>2. CASE s = next
    <3>1. position(s)' = n + 1
      BY <2>1, <2>2, <1>1, <1>2 DEF position
    <3> QED
      BY <2>2, <3>1, <1>2, <1>3
  <2>3. CASE s # next
    <3>1. position(s)' = position(s) /\ position(s) \in Int /\ position(s) <= n
      BY <2>1, <2>3, <1>1, <1>2 DEF position, n
    <3>2. order'[s] = order[s]
      BY <2>3, <1>3
    <3>3. order[s] = IF position(s) >= 1 THEN delivered[position(s)] ELSE NoID
      BY DEF RingIsHistory
    <3> QED
      BY <3>1, <3>2, <3>3, <1>2
  <2> QED
    BY <2>2, <2>3
<1>6. ASSUME NEW s \in Slots, s # next, order[s] = order[next], order[s] # NoID
      PROVE  FALSE
  <2>1. s \in Nat /\ s < DedupeWindow
    BY <1>1
  <2>2. /\ position(s) >= 1 /\ order[s] = delivered[position(s)]
        /\ position(next) >= 1 /\ order[next] = delivered[position(next)]
    BY <1>3, <1>6 DEF RingIsHistory
  <2> DEFINE q == position(next)
             p == position(s)
  <2>3. q = n - DedupeWindow + 1
    BY <1>1, <1>2 DEF position, n
  <2>4. p = IF s < next THEN n - next + s + 1 ELSE n - next - DedupeWindow + s + 1
    BY DEF position, n
  <2> HIDE DEF p, q
  <2>5. p \in Int /\ q \in Int /\ p <= n /\ q <= n /\ q < p /\ p - q < DedupeWindow
    BY <2>1, <2>3, <2>4, <1>1, <1>2, <1>6
  <2>6. p \in 1..n /\ q \in 1..n /\ delivered[q] = delivered[p]
    BY <2>2, <2>5, <1>2, <1>6 DEF p, q
  <2>7. p - q > DedupeWindow
    BY <2>5, <2>6 DEF NoEarlyDuplicate, n
  <2> QED
    BY <2>5, <2>7, <1>1
<1>7. IdsMatchRing'
  <2>1. ids' = (ids \ {order[next]}) \cup {m} /\ ids = {order[s] : s \in Slots} \ {NoID}
    BY DEF dedupeAdd, IdsMatchRing
  <2>2. ASSUME NEW x \in ids'
        PROVE  x \in {order'[s] : s \in Slots} \ {NoID}
    <3>1. CASE x = m
      BY <3>1, <1>3, NoIDAssumption
    <3>2. CASE x # m
      BY <3>2, <2>1, <2>2, <1>3
    <3> QED
      BY <3>1, <3>2
  <2>3. ASSUME NEW s \in Slots, order'[s] # NoID
        PROVE  order'[s] \in ids'
    <3>1. CASE s = next
      BY <3>1, <2>1, <1>3
    <3>2. CASE s # next
      BY <3>2, <2>1, <2>3, <1>3, <1>6
    <3> QED
      BY <3>1, <3>2
  <2> QED
    BY <2>2, <2>3 DEF IdsMatchRing
<1> QED
  BY <1>4, <1>5, <1>7

-----------------------------------------------------------------------------
(* The inductive invariant.                                                *)

\* The frames of one message are not those of another, nor acknowledgements.
LEMMA FramesDiffer ==
    /\ \A m, x \in Messages : \A i, j : DataFrame(m, i) = DataFrame(x, j) => m = x
    /\ \A m, x \in Messages : \A i : DataFrame(m, i) # AckFrame(x)
    /\ \A m, x \in Messages : AckFrame(m) = AckFrame(x) => m = x
<1>1. ASSUME NEW m, NEW x, NEW i, NEW j, DataFrame(m, i) = DataFrame(x, j)
      PROVE  m = x
  <2>1. DataFrame(m, i).id = DataFrame(x, j).id
    BY <1>1
  <2> QED
    BY <2>1 DEF DataFrame
<1>2. ASSUME NEW m, NEW x, NEW i, DataFrame(m, i) = AckFrame(x)
      PROVE  FALSE
  <2>1. DataFrame(m, i).type = AckFrame(x).type
    BY <1>2
  <2> QED
    BY <2>1 DEF DataFrame, AckFrame
<1>3. ASSUME NEW m, NEW x, AckFrame(m) = AckFrame(x)
      PROVE  m = x
  <2>1. AckFrame(m).id = AckFrame(x).id
    BY <1>3
  <2> QED
    BY <2>1 DEF AckFrame
<1> QED
  BY <1>1, <1>2, <1>3

\* An id in the dedupe map, or a message in the history of a longer history.
LEMMA HistoryGrows ==
    ASSUME TypeOK, NEW m \in Messages, delivered' = Append(delivered, m)
    PROVE  /\ \E i \in 1..Len(delivered') : delivered'[i] = m
           /\ \A x \in Messages :
                 (\E i \in 1..Len(delivered) : delivered[i] = x)
                 => \E i \in 1..Len(delivered') : delivered'[i] = x
<1>1. /\ Len(delivered) \in Nat
      /\ Len(delivered') = Len(delivered) + 1
      /\ delivered'[Len(delivered) + 1] = m
      /\ \A i \in 1..Len(delivered) : delivered'[i] = delivered[i]
  BY AppendProperties, LenProperties DEF TypeOK
<1> QED
  BY <1>1

\* Steps that neither deliver nor acknowledge keep the receiver's part.
LEMMA ReceiverIdle ==
    ASSUME IInv, UNCHANGED <<ids, order, next, delivered>>
    PROVE  RingIsHistory' /\ IdsMatchRing' /\ NoEarlyDuplicate'
BY DEF IInv, RingIsHistory, IdsMatchRing, NoEarlyDuplicate, position

\* Every step of the mux preserves the inductive invariant.
LEMMA InvStep ==
    ASSUME IInv, [Next]_vars
    PROVE  IInv'
<1>1. TypeOK'
  BY TypeStep DEF IInv
<1> USE DEF IInv
<1>2. CASE Close
  BY <1>1, <1>2, ReceiverIdle
     DEF Close, recvVars, AckEvidence, SubmittedOnly, RetriesBounded
<1>3. CASE Recv
  BY <1>1, <1>3, ReceiverIdle
     DEF Recv, sendVars, dedupeVars, AckEvidence, SubmittedOnly, RetriesBounded
<1>4. ASSUME NEW m \in Messages, Send(m)
      PROVE  IInv'
  <2>1. RingIsHistory' /\ IdsMatchRing' /\ NoEarlyDuplicate'
    BY <1>4, ReceiverIdle DEF Send, recvVars
  <2>2. AckEvidence' /\ SubmittedOnly'
    BY <1>4 DEF Send, recvVars, AckEvidence, SubmittedOnly, TypeOK
  <2>3. RetriesBounded'
    BY <1>4, AttemptsAssumption DEF Send, RetriesBounded, TypeOK
  <2> QED
    BY <1>1, <2>1, <2>2, <2>3
<1>5. ASSUME NEW m \in Messages, Write(m)
      PROVE  IInv'
  <2>1. RingIsHistory' /\ IdsMatchRing' /\ NoEarlyDuplicate'
    BY <1>5, ReceiverIdle DEF Write, recvVars
  <2>2. AckEvidence'
    <3>1. \A x \in Messages : AckFrame(x) \in net' => AckFrame(x) \in net
      BY <1>5, FramesDiffer DEF Write, DataFrames
    <3> QED
      BY <1>5, <3>1 DEF Write, recvVars, AckEvidence, TypeOK
  <2>3. SubmittedOnly'
    <3>1. \A x \in Messages : \A i \in 1..Frags[x] :
             DataFrame(x, i) \in net' => DataFrame(x, i) \in net \/ x = m
      BY <1>5, FramesDiffer DEF Write, DataFrames
    <3> QED
      BY <1>5, <3>1 DEF Write, SubmittedOnly, TypeOK
  <2>4. RetriesBounded'
    BY <1>5, AttemptsAssumption DEF Write, RetriesBounded, TypeOK
  <2> QED
    BY <1>1, <2>1, <2>2, <2>3, <2>4
<1>6. ASSUME NEW m \in Messages, WriteError(m)
      PROVE  IInv'
  <2>1. RingIsHistory' /\ IdsMatchRing' /\ NoEarlyDuplicate'
    BY <1>6, ReceiverIdle DEF WriteError, recvVars
  <2>2. AckEvidence'
    <3>1. \A x \in Messages : AckFrame(x) \in net' => AckFrame(x) \in net
      BY <1>6, FramesDiffer DEF WriteError
    <3> QED
      BY <1>6, <3>1 DEF WriteError, recvVars, AckEvidence, TypeOK
  <2>3. SubmittedOnly'
    <3>1. \A x \in Messages : \A i \in 1..Frags[x] :
             DataFrame(x, i) \in net' => DataFrame(x, i) \in net \/ x = m
      BY <1>6, FramesDiffer DEF WriteError
    <3> QED
      BY <1>6, <3>1 DEF WriteError, SubmittedOnly, TypeOK
  <2>4. RetriesBounded'
    BY <1>6 DEF WriteError, RetriesBounded, TypeOK
  <2> QED
    BY <1>1, <2>1, <2>2, <2>3, <2>4
<1>7. ASSUME NEW m \in Messages, Timeout(m)
      PROVE  IInv'
  <2>1. RingIsHistory' /\ IdsMatchRing' /\ NoEarlyDuplicate'
    BY <1>7, ReceiverIdle DEF Timeout, recvVars
  <2>2. AckEvidence' /\ SubmittedOnly'
    BY <1>7 DEF Timeout, recvVars, AckEvidence, SubmittedOnly, TypeOK
  <2>3. RetriesBounded'
    BY <1>7 DEF Timeout, RetriesBounded, TypeOK
  <2> QED
    BY <1>1, <2>1, <2>2, <2>3
<1>8. ASSUME NEW m \in Messages, NEW r \in {"ok", "closed", "cancelled"}, Return(m, r)
      PROVE  IInv'
  <2>1. RingIsHistory' /\ IdsMatchRing' /\ NoEarlyDuplicate'
    BY <1>8, ReceiverIdle DEF Return, recvVars
  <2>2. AckEvidence'
    BY <1>8 DEF Return, recvVars, AckEvidence, TypeOK
  <2>3. SubmittedOnly' /\ RetriesBounded'
    BY <1>8 DEF Return, recvVars, SubmittedOnly, RetriesBounded, TypeOK
  <2> QED
    BY <1>1, <2>1, <2>2, <2>3
<1>9. ASSUME NEW m \in Messages, handleSignal(m)
      PROVE  IInv'
  <2>1. RingIsHistory' /\ IdsMatchRing' /\ NoEarlyDuplicate'
    BY <1>9, ReceiverIdle DEF handleSignal, recvVars
  <2>2. AckEvidence'
    BY <1>9 DEF handleSignal, recvVars, AckEvidence, TypeOK
  <2>3. SubmittedOnly' /\ RetriesBounded'
    BY <1>9 DEF handleSignal, recvVars, SubmittedOnly, RetriesBounded, TypeOK
  <2> QED
    BY <1>1, <2>1, <2>2, <2>3
<1>10. ASSUME NEW m \in Messages, NEW i \in 1..Frags[m], handleDuplicate(m, i)
       PROVE  IInv'
  <2>1. RingIsHistory' /\ IdsMatchRing' /\ NoEarlyDuplicate'
    BY <1>10, ReceiverIdle DEF handleDuplicate, dedupeVars
  <2>2. AckEvidence'
    <3>1. \A x \in Messages : AckFrame(x) \in net' => AckFrame(x) \in net \/ x \in ids
      BY <1>10, FramesDiffer DEF handleDuplicate
    <3> QED
      BY <1>10, <3>1 DEF handleDuplicate, sendVars, dedupeVars, AckEvidence
  <2>3. SubmittedOnly'
    <3>1. \A x \in Messages : \A j \in 1..Frags[x] :
             DataFrame(x, j) \in net' => DataFrame(x, j) \in net
      BY <1>10, FramesDiffer DEF handleDuplicate
    <3> QED
      BY <1>10, <3>1 DEF handleDuplicate, sendVars, SubmittedOnly
  <2>4. RetriesBounded'
    BY <1>10 DEF handleDuplicate, sendVars, RetriesBounded
  <2> QED
    BY <1>1, <2>1, <2>2, <2>3, <2>4
<1>11. ASSUME NEW m \in Messages, NEW i \in 1..Frags[m], NEW k \in 0..Len(reasmAge),
              handlePartial(m, i, k)
       PROVE  IInv'
  BY <1>1, <1>11, ReceiverIdle
     DEF handlePartial, sendVars, dedupeVars, AckEvidence, SubmittedOnly, RetriesBounded
<1>12. ASSUME NEW m \in Messages, NEW i \in 1..Frags[m], NEW k \in 0..Len(reasmAge),
              handleComplete(m, i, k)
       PROVE  IInv'
  <2>1. RingIsHistory' /\ IdsMatchRing' /\ NoEarlyDuplicate'
    BY <1>12, AddToRing DEF handleComplete
  <2>2. AckEvidence'
    <3>1. \A x \in Messages : AckFrame(x) \in net' => AckFrame(x) \in net \/ x = m
      BY <1>12, FramesDiffer DEF handleComplete
    <3>2. \A x \in ids' : x \in ids \/ x = m
      BY <1>12 DEF handleComplete, dedupeAdd
    <3>3. UNCHANGED <<result, signal>> /\ delivered' = Append(delivered, m)
      BY <1>12 DEF handleComplete, sendVars
    <3> QED
      BY <3>1, <3>2, <3>3, HistoryGrows DEF AckEvidence
  <2>3. SubmittedOnly'
    <3>1. \A x \in Messages : \A j \in 1..Frags[x] :
             DataFrame(x, j) \in net' => DataFrame(x, j) \in net
      BY <1>12, FramesDiffer DEF handleComplete
    <3> QED
      BY <1>12, <3>1 DEF handleComplete, sendVars, SubmittedOnly
  <2>4. RetriesBounded'
    BY <1>12 DEF handleComplete, sendVars, RetriesBounded
  <2> QED
    BY <1>1, <2>1, <2>2, <2>3, <2>4
<1>13. CASE UNCHANGED vars
  BY <1>1, <1>13, ReceiverIdle
     DEF vars, AckEvidence, SubmittedOnly, RetriesBounded
<1> QED
  BY <1>2, <1>3, <1>4, <1>5, <1>6, <1>7, <1>8, <1>9, <1>10, <1>11, <1>12, <1>13
     DEF Next, handleData

\* The invariant holds initially.
LEMMA InvInit == Init => IInv
<1> SUFFICES ASSUME Init PROVE IInv
  OBVIOUS
<1>1. TypeOK
  BY TypeInit
<1>2. Len(delivered) = 0 /\ next = 0 /\ \A s \in Slots : s \in Nat /\ s < DedupeWindow
  BY NextSlot, EmptySeq DEF Init
<1>3. RingIsHistory
  <2>1. \A s \in Slots : ~(position(s) >= 1)
    BY <1>2, WindowAssumption DEF position
  <2> QED
    BY <2>1 DEF RingIsHistory, Init
<1>4. IdsMatchRing
  BY DEF Init, IdsMatchRing
<1>5. NoEarlyDuplicate
  BY <1>2 DEF NoEarlyDuplicate
<1>6. AckEvidence /\ SubmittedOnly
  BY DEF Init, AckEvidence, SubmittedOnly
<1>7. RetriesBounded
  BY AttemptsAssumption DEF Init, RetriesBounded
<1> QED
  BY <1>1, <1>3, <1>4, <1>5, <1>6, <1>7 DEF IInv

\* The inductive invariant holds in every behaviour.
THEOREM InvHolds == Spec => []IInv
<1>1. IInv /\ [Next]_vars => IInv'
  BY InvStep
<1> QED
  BY <1>1, InvInit, PTL DEF Spec

\* Whatever the network loses, repeats or reorders, a Send that returned nil
\* has had its message put into the peer's inbox (handleData acknowledges
\* last).
THEOREM SendMeansDelivered == Spec => []AckedIsDelivered
<1>1. IInv => AckedIsDelivered
  BY DEF IInv, AckEvidence, AckedIsDelivered
<1> QED
  BY <1>1, InvHolds, PTL

\* For every window size, the ring of dedupe forgets a message only after
\* DedupeWindow later deliveries, so none is delivered twice before that.
THEOREM DuplicatesAreFarApart == Spec => []NoEarlyDuplicate
<1>1. IInv => NoEarlyDuplicate
  BY DEF IInv
<1> QED
  BY <1>1, InvHolds, PTL

-----------------------------------------------------------------------------
(* The reassembly table.                                                   *)

\* The ages of a table, without repetition, name exactly its partial messages.
AgesMatch(table, ages) ==
    /\ \A m \in Messages : table[m] # {} <=> \E j \in 1..Len(ages) : ages[j] = m
    /\ \A j, l \in 1..Len(ages) : ages[j] = ages[l] => j = l

\* What reassemble leaves: a table within its bound whose ages match, which
\* has an entry for m and gained no other.
LEMMA ReassembleTable ==
    ASSUME TypeOK, Len(reasmAge) <= MaxReassemblies, AgesMatch(reasm, reasmAge),
           NEW m \in Messages, NEW i \in 1..Frags[m], NEW k \in 0..Len(reasmAge)
    PROVE  LET r == reassemble(m, i, k)
           IN  /\ Len(r[2]) <= MaxReassemblies
               /\ AgesMatch(r[1], r[2])
               /\ \A x \in Messages : r[1][x] # {} => x = m \/ reasm[x] # {}
<1>1. CASE reasm[m] # {}
  <2> DEFINE table == [reasm EXCEPT ![m] = @ \cup {i}]
  <2>1. reassemble(m, i, k) = <<table, reasmAge>>
    BY <1>1 DEF reassemble
  <2>2. \A x \in Messages : table[x] # {} <=> reasm[x] # {}
    BY <1>1 DEF TypeOK
  <2> HIDE DEF table
  <2>3. AgesMatch(table, reasmAge)
    BY <2>2 DEF AgesMatch
  <2> QED
    BY <2>1, <2>2, <2>3
<1>2. CASE reasm[m] = {}
  <2> DEFINE kept == gcReassemblies(k)
             n == Len(kept)
             table == [x \in Messages |->
                          IF x = m THEN {i}
                          ELSE IF \E j \in 1..n : kept[j] = x THEN reasm[x]
                          ELSE {}]
             ages == Append(kept, m)
  <2>1. reassemble(m, i, k) = <<table, ages>>
    BY <1>2 DEF reassemble
  <2>2. kept \in Seq(Messages) /\ n \in Nat /\ n < MaxReassemblies
    BY GcSuffix, LenProperties DEF TypeOK
  <2>3. PICK d \in 0..Len(reasmAge) :
           n = Len(reasmAge) - d /\ \A j \in 1..n : kept[j] = reasmAge[j + d]
    BY GcSuffix DEF TypeOK
  <2>4. Len(reasmAge) \in Nat /\ MaxReassemblies \in Nat
    BY LenProperties, ReasmAssumption DEF TypeOK
  <2> HIDE DEF kept, n
  <2>5. \A j \in 1..n : j + d \in 1..Len(reasmAge)
    BY <2>2, <2>3, <2>4
  <2>6. \A j \in 1..n : kept[j] # m
    BY <1>2, <2>3, <2>5 DEF AgesMatch
  <2>7. \A j, l \in 1..n : kept[j] = kept[l] => j = l
    BY <2>2, <2>3, <2>4, <2>5 DEF AgesMatch
  <2>8. \A j \in 1..n : reasm[kept[j]] # {} /\ kept[j] \in Messages
    BY <2>2, <2>3, <2>5, ElementOfSeq DEF AgesMatch, n
  <2>9. /\ Len(ages) = n + 1
        /\ ages[n + 1] = m
        /\ \A j \in 1..n : ages[j] = kept[j]
    BY <2>2, AppendProperties DEF n
  <2>10. \A x \in Messages : table[x] # {} <=> x = m \/ \E j \in 1..n : kept[j] = x
    BY <2>8
  <2> HIDE DEF table, ages
  <2>11. AgesMatch(table, ages)
    <3>1. \A x \in Messages : table[x] # {} <=> \E j \in 1..(n + 1) : ages[j] = x
      BY <2>2, <2>9, <2>10
    <3>2. \A j, l \in 1..(n + 1) : ages[j] = ages[l] => j = l
      BY <2>2, <2>6, <2>7, <2>9
    <3> QED
      BY <2>9, <3>1, <3>2 DEF AgesMatch
  <2>12. \A x \in Messages : table[x] # {} => x = m \/ reasm[x] # {}
    BY <2>8, <2>10
  <2>13. Len(ages) <= MaxReassemblies
    BY <2>2, <2>4, <2>9
  <2> QED
    BY <2>1, <2>11, <2>12, <2>13
<1> QED
  BY <1>1, <1>2

\* The bounds of the receiver and the consistency of its table are inductive
\* together.
TableInv == TypeOK /\ ReceiverBounded /\ ReassemblyConsistent

\* Every step keeps them: gcReassemblies makes room before reassemble adds,
\* and a delivery takes the message out of the fragments and of the ages.
LEMMA TableStep ==
    ASSUME TableInv, [Next]_vars
    PROVE  TableInv'
<1> USE DEF TableInv
<1>1. TypeOK'
  BY TypeStep
<1>2. /\ Len(reasmAge) <= MaxReassemblies
      /\ AgesMatch(reasm, reasmAge)
      /\ \A m \in Messages : m \in ids => reasm[m] = {}
  BY DEF ReceiverBounded, ReassemblyConsistent, AgesMatch
<1>3. SUFFICES /\ Len(inbox') <= InboxSize
               /\ Len(reasmAge') <= MaxReassemblies
               /\ AgesMatch(reasm', reasmAge')
               /\ \A m \in Messages : m \in ids' => reasm'[m] = {}
  BY <1>1 DEF ReceiverBounded, ReassemblyConsistent, AgesMatch
<1>4. CASE UNCHANGED <<inbox, reasm, reasmAge, ids>>
  BY <1>2, <1>4 DEF ReceiverBounded
<1>5. CASE Recv
  <2>1. Len(Tail(inbox)) = Len(inbox) - 1
    BY <1>5, HeadTailProperties DEF Recv, TypeOK
  <2>2. Len(inbox) \in Nat
    BY LenProperties DEF TypeOK
  <2>3. Len(inbox') <= InboxSize
    BY <1>5, <2>1, <2>2, InboxAssumption DEF Recv, ReceiverBounded
  <2> QED
    BY <1>2, <1>5, <2>3 DEF Recv, dedupeVars
<1>6. ASSUME NEW m \in Messages, NEW i \in 1..Frags[m], NEW k \in 0..Len(reasmAge),
             handlePartial(m, i, k)
      PROVE  /\ Len(inbox') <= InboxSize
             /\ Len(reasmAge') <= MaxReassemblies
             /\ AgesMatch(reasm', reasmAge')
             /\ \A x \in Messages : x \in ids' => reasm'[x] = {}
  <2>1. /\ m \notin ids
        /\ reasm' = reassemble(m, i, k)[1]
        /\ reasmAge' = reassemble(m, i, k)[2]
        /\ UNCHANGED <<inbox, ids>>
    BY <1>6 DEF handlePartial, dedupeVars
  <2>2. /\ Len(reasmAge') <= MaxReassemblies
        /\ AgesMatch(reasm', reasmAge')
        /\ \A x \in Messages : reasm'[x] # {} => x = m \/ reasm[x] # {}
    BY <1>2, <2>1, ReassembleTable
  <2> QED
    BY <1>2, <2>1, <2>2 DEF ReceiverBounded
<1>7. ASSUME NEW m \in Messages, NEW i \in 1..Frags[m], NEW k \in 0..Len(reasmAge),
             handleComplete(m, i, k)
      PROVE  /\ Len(inbox') <= InboxSize
             /\ Len(reasmAge') <= MaxReassemblies
             /\ AgesMatch(reasm', reasmAge')
             /\ \A x \in Messages : x \in ids' => reasm'[x] = {}
  <2> DEFINE table == reassemble(m, i, k)[1]
             ages == reassemble(m, i, k)[2]
  <2>1. /\ table \in [Messages -> SUBSET Nat] /\ ages \in Seq(Messages)
        /\ Len(ages) \in Nat
    BY ReassembleType, LenProperties
  <2>2. /\ Len(ages) <= MaxReassemblies
        /\ AgesMatch(table, ages)
        /\ \A x \in Messages : table[x] # {} => x = m \/ reasm[x] # {}
    BY <1>2, ReassembleTable
  <2>3. /\ reasm' = [table EXCEPT ![m] = {}]
        /\ Len(inbox) < InboxSize
        /\ inbox' = Append(inbox, m)
        /\ \A x \in ids' : x \in ids \/ x = m
    BY <1>7 DEF handleComplete, dedupeAdd
  <2>4. PICK p \in 1..Len(ages) :
           /\ ages[p] = m
           /\ reasmAge' \in Seq(Messages)
           /\ Len(reasmAge') = Len(ages) - 1
           /\ \A j \in 1..Len(reasmAge') :
                 reasmAge'[j] = IF j < p THEN ages[j] ELSE ages[j + 1]
    BY <1>7, CompleteAges
  <2> HIDE DEF table, ages
  <2>5. Len(inbox') <= InboxSize
    BY <2>3, AppendProperties, LenProperties, InboxAssumption DEF TypeOK
  <2>6. Len(reasmAge') <= MaxReassemblies
    BY <2>1, <2>2, <2>4, ReasmAssumption
  <2>7. \A x \in Messages : x \in ids' => reasm'[x] = {}
    BY <1>2, <2>1, <2>2, <2>3
  <2>8. AgesMatch(reasm', reasmAge')
    <3> DEFINE src(j) == IF j < p THEN j ELSE j + 1
    <3>0. \A j \in 1..Len(reasmAge') :
             /\ src(j) \in 1..Len(ages) /\ src(j) # p
             /\ reasmAge'[j] = ages[src(j)]
      <4> SUFFICES ASSUME NEW j \in 1..Len(reasmAge')
                   PROVE  /\ src(j) \in 1..Len(ages) /\ src(j) # p
                          /\ reasmAge'[j] = ages[src(j)]
        OBVIOUS
      <4>1. j \in Nat /\ p \in Nat /\ 1 <= j /\ j <= Len(ages) - 1
        BY <2>1, <2>4
      <4>2. CASE j < p
        BY <2>1, <2>4, <4>1, <4>2
      <4>3. CASE ~(j < p)
        BY <2>1, <2>4, <4>1, <4>3
      <4> QED
        BY <4>2, <4>3
    <3>1. \A j, l \in 1..Len(reasmAge') : reasmAge'[j] = reasmAge'[l] => j = l
      <4> SUFFICES ASSUME NEW j \in 1..Len(reasmAge'), NEW l \in 1..Len(reasmAge'),
                          reasmAge'[j] = reasmAge'[l]
                   PROVE  j = l
        OBVIOUS
      <4>1. src(j) = src(l)
        <5> HIDE DEF src
        <5> QED
          BY <2>2, <3>0 DEF AgesMatch
      <4> QED
        BY <2>1, <2>4, <4>1
    <3>2. ASSUME NEW x \in Messages, reasm'[x] # {}
          PROVE  \E j \in 1..Len(reasmAge') : reasmAge'[j] = x
      <4>1. x # m /\ table[x] # {}
        BY <2>1, <2>3, <3>2
      <4>2. PICK l \in 1..Len(ages) : ages[l] = x
        BY <2>2, <4>1 DEF AgesMatch
      <4>3. CASE l < p
        <5>1. l \in 1..Len(reasmAge') /\ reasmAge'[l] = x
          BY <2>1, <2>4, <4>2, <4>3
        <5> QED
          BY <5>1
      <4>4. CASE l > p
        <5>1. l - 1 \in 1..Len(reasmAge') /\ reasmAge'[l - 1] = x
          BY <2>1, <2>4, <4>2, <4>4
        <5> QED
          BY <5>1
      <4> QED
        BY <2>1, <2>4, <4>1, <4>2, <4>3, <4>4
    <3>3. ASSUME NEW j \in 1..Len(reasmAge')
          PROVE  reasmAge'[j] \in Messages /\ reasm'[reasmAge'[j]] # {}
      <4>1. PICK l \in 1..Len(ages) : l # p /\ reasmAge'[j] = ages[l]
        <5> HIDE DEF src
        <5> QED
          BY <3>0
      <4>2. ages[l] # m /\ ages[l] \in Messages
        BY <2>1, <2>2, <2>4, <4>1, ElementOfSeq DEF AgesMatch
      <4>3. table[ages[l]] # {}
        BY <2>2, <4>1, <4>2 DEF AgesMatch
      <4> QED
        BY <2>1, <2>3, <4>1, <4>2, <4>3
    <3> QED
      BY <3>1, <3>2, <3>3 DEF AgesMatch
  <2> QED
    BY <2>5, <2>6, <2>7, <2>8
<1>8. ASSUME NEW m \in Messages, NEW i \in 1..Frags[m], handleDuplicate(m, i)
      PROVE  UNCHANGED <<inbox, reasm, reasmAge, ids>>
  BY <1>8 DEF handleDuplicate, dedupeVars
<1>9. ASSUME \/ Close
             \/ \E m \in Messages :
                   \/ Send(m) \/ Write(m) \/ WriteError(m) \/ Timeout(m)
                   \/ \E r \in {"ok", "closed", "cancelled"} : Return(m, r)
                   \/ handleSignal(m)
             \/ UNCHANGED vars
      PROVE  UNCHANGED <<inbox, reasm, reasmAge, ids>>
  BY <1>9 DEF Close, Send, Write, WriteError, Timeout, Return, handleSignal, vars, recvVars
<1> QED
  BY <1>4, <1>5, <1>6, <1>7, <1>8, <1>9 DEF Next, handleData

\* For every inbox and table size the receiver keeps its memory bounded and
\* its reassembly table consistent with what dedupe knows, whatever mixture
\* of messages, repetitions and expirations the network produces.
THEOREM ReceiverSafe == Spec => [](ReceiverBounded /\ ReassemblyConsistent)
<1>1. Init => TableInv
  <2> SUFFICES ASSUME Init PROVE TableInv
    OBVIOUS
  <2>1. Len(inbox) = 0 /\ Len(reasmAge) = 0
    BY EmptySeq DEF Init
  <2>2. ReceiverBounded
    BY <2>1, InboxAssumption, ReasmAssumption DEF ReceiverBounded
  <2>3. ReassemblyConsistent
    BY <2>1 DEF Init, ReassemblyConsistent
  <2> QED
    BY <2>2, <2>3, TypeInit DEF TableInv
<1>2. TableInv /\ [Next]_vars => TableInv'
  BY TableStep
<1>3. TableInv => ReceiverBounded /\ ReassemblyConsistent
  BY DEF TableInv
<1> QED
  BY <1>1, <1>2, <1>3, PTL DEF Spec

\* The bounds by themselves: neither queue of the receiver outgrows the size
\* the code gives it, for whatever sizes.
THEOREM ReceiverIsBounded == Spec => []ReceiverBounded
BY ReceiverSafe, PTL

-----------------------------------------------------------------------------
(* The refinement of EffectivelyOnce.                                      *)

\* What the caller sees of result: the substitution made for Abstract.
View == [m \in Messages |->
            IF result[m] \in {"idle", "ok"} THEN result[m]
            ELSE IF result[m] \in Pending THEN "sending"
            ELSE "error"]

\* A change of one Send's result is a change of its view alone.
LEMMA ViewUpdate ==
    ASSUME TypeOK, NEW m \in Messages, NEW r \in Results,
           result' = [result EXCEPT ![m] = r]
    PROVE  View' = [View EXCEPT ![m] =
                       IF r \in {"idle", "ok"} THEN r
                       ELSE IF r \in Pending THEN "sending"
                       ELSE "error"]
BY DEF TypeOK, View

\* The four ways to fail are one to the caller.
LEMMA ViewFails ==
    ASSUME TypeOK, NEW m \in Messages,
           NEW r \in {"timeout", "closed", "cancelled", "failed"},
           result' = [result EXCEPT ![m] = r]
    PROVE  View' = [View EXCEPT ![m] = "error"]
<1>1. r \in Results /\ r \notin {"idle", "ok"} /\ r \notin Pending
  BY DEF Results, Pending
<1> QED
  BY <1>1, ViewUpdate

\* Every step of the mux is a step of the abstract connection or leaves what
\* the callers see unchanged.
LEMMA RefineStep ==
    ASSUME IInv, [Next]_vars
    PROVE  [Abstract!Next]_(Abstract!vars)
<1> USE DEF IInv
<1>0. UNCHANGED <<View, delivered>> => UNCHANGED Abstract!vars
  BY DEF Abstract!vars, View
<1>1. ASSUME NEW m \in Messages, Send(m)
      PROVE  Abstract!Submit(m)
  <2>1. View' = [View EXCEPT ![m] = "sending"]
    BY <1>1, ViewUpdate DEF Send, Results, Pending
  <2>2. View[m] = "idle"
    BY <1>1 DEF Send, Pending, View
  <2> QED
    BY <1>1, <2>1, <2>2 DEF Abstract!Submit, Send, recvVars, View
<1>2. ASSUME NEW m \in Messages, WriteError(m)
      PROVE  Abstract!Return(m, "error")
  <2>1. View' = [View EXCEPT ![m] = "error"]
    BY <1>2, ViewFails DEF WriteError
  <2>2. View[m] = "sending"
    BY <1>2 DEF WriteError, Pending, View
  <2> QED
    BY <1>2, <2>1, <2>2 DEF Abstract!Return, WriteError, recvVars, View
<1>3. ASSUME NEW m \in Messages, Write(m)
      PROVE  UNCHANGED <<View, delivered>>
  <2>1. View' = [View EXCEPT ![m] = "sending"]
    BY <1>3, ViewUpdate DEF Write, Results, Pending
  <2>2. View[m] = "sending"
    BY <1>3 DEF Write, Pending, View
  <2> QED
    BY <1>3, <2>1, <2>2 DEF Write, recvVars, View
<1>4. ASSUME NEW m \in Messages, Timeout(m)
      PROVE  UNCHANGED <<View, delivered>> \/ Abstract!Return(m, "error")
  <2>1. CASE attempt[m] < SendAttempts
    <3>1. View' = [View EXCEPT ![m] = "sending"]
      BY <1>4, <2>1, ViewUpdate DEF Timeout, Results, Pending
    <3>2. View[m] = "sending"
      BY <1>4 DEF Timeout, Pending, View
    <3> QED
      BY <1>4, <3>1, <3>2 DEF Timeout, recvVars, View
  <2>2. CASE ~(attempt[m] < SendAttempts)
    <3>1. View' = [View EXCEPT ![m] = "error"]
      BY <1>4, <2>2, ViewFails DEF Timeout
    <3>2. View[m] = "sending"
      BY <1>4 DEF Timeout, Pending, View
    <3> QED
      BY <1>4, <3>1, <3>2 DEF Abstract!Return, Timeout, recvVars, View
  <2> QED
    BY <2>1, <2>2
<1>5. ASSUME NEW m \in Messages, NEW r \in {"ok", "closed", "cancelled"}, Return(m, r)
      PROVE  \E a \in {"ok", "error"} : Abstract!Return(m, a)
  <2>1. View[m] = "sending" /\ delivered' = delivered
    BY <1>5 DEF Return, recvVars, Pending, View
  <2>2. CASE r = "ok"
    <3>1. View' = [View EXCEPT ![m] = "ok"]
      BY <1>5, <2>2, ViewUpdate DEF Return, Results
    <3>2. \E i \in 1..Len(delivered) : delivered[i] = m
      BY <1>5, <2>2 DEF Return, AckEvidence
    <3> QED
      BY <2>1, <3>1, <3>2 DEF Abstract!Return, View
  <2>3. CASE r # "ok"
    <3>1. View' = [View EXCEPT ![m] = "error"]
      BY <1>5, <2>3, ViewFails DEF Return
    <3> QED
      BY <2>1, <3>1 DEF Abstract!Return, View
  <2> QED
    BY <2>2, <2>3
<1>6. ASSUME NEW m \in Messages, NEW i \in 1..Frags[m], NEW k \in 0..Len(reasmAge),
             handleComplete(m, i, k)
      PROVE  Abstract!Deliver(m)
  <2>1. /\ View[m] # "idle"
        /\ View' = View
        /\ delivered' = Append(delivered, m)
        /\ m \notin ids
    BY <1>6 DEF handleComplete, SubmittedOnly, sendVars, View, Pending
  <2>2. ~Abstract!Remembered(m)
    <3>1. \A j \in 1..Len(delivered) :
             delivered[j] = m => j <= Len(delivered) - DedupeWindow
      BY <2>1, UnknownIsNotRecent
    <3>2. Len(delivered) \in Nat /\ DedupeWindow \in Nat
      BY LenProperties, WindowAssumption DEF TypeOK
    <3> QED
      BY <3>1, <3>2 DEF Abstract!Remembered
  <2> QED
    BY <2>1, <2>2 DEF Abstract!Deliver, View
<1>7. ASSUME \/ Close
             \/ Recv
             \/ \E m \in Messages : handleSignal(m)
             \/ \E m \in Messages : \E i \in 1..Frags[m] : handleDuplicate(m, i)
             \/ \E m \in Messages : \E i \in 1..Frags[m] :
                   \E k \in 0..Len(reasmAge) : handlePartial(m, i, k)
             \/ UNCHANGED vars
      PROVE  UNCHANGED <<View, delivered>>
  BY <1>7 DEF Close, Recv, handleSignal, handleDuplicate, handlePartial, vars,
              recvVars, sendVars, View
<1>8. ASSUME NEW m \in Messages,
             \/ Abstract!Submit(m)
             \/ Abstract!Deliver(m)
             \/ \E a \in {"ok", "error"} : Abstract!Return(m, a)
      PROVE  Abstract!Next
  BY <1>8 DEF Abstract!Next
<1>9. CASE \E m \in Messages :
              \/ Send(m) \/ Write(m) \/ WriteError(m) \/ Timeout(m)
              \/ \E r \in {"ok", "closed", "cancelled"} : Return(m, r)
              \/ \E i \in 1..Frags[m] : \E k \in 0..Len(reasmAge) : handleComplete(m, i, k)
  BY <1>0, <1>1, <1>2, <1>3, <1>4, <1>5, <1>6, <1>8, <1>9
<1>10. CASE ~\E m \in Messages :
              \/ Send(m) \/ Write(m) \/ WriteError(m) \/ Timeout(m)
              \/ \E r \in {"ok", "closed", "cancelled"} : Return(m, r)
              \/ \E i \in 1..Frags[m] : \E k \in 0..Len(reasmAge) : handleComplete(m, i, k)
  BY <1>0, <1>7, <1>10 DEF Next, handleData
<1> QED
  BY <1>9, <1>10

\* mux.go implements the promise of network.Conn: for every network
\* behaviour, an unordered, effectively-once delivery with a window.
THEOREM Refinement == Spec => ImplementsEffectivelyOnce
<1>1. Init => Abstract!Init
  BY DEF Init, Abstract!Init
<1>2. IInv /\ [Next]_vars => [Abstract!Next]_(Abstract!vars)
  BY RefineStep
<1> QED
  BY <1>1, <1>2, InvHolds, PTL DEF Spec, ImplementsEffectivelyOnce, Abstract!Spec
=============================================================================
