----------------------------- MODULE ChatProofs -----------------------------
(***************************************************************************)
(* The chat screen, for any channels, groups, messages, transcripts and    *)
(* queues of any size, and any number of sessions and vaults: its state is *)
(* well formed, its badges count what is unread, the session on the screen *)
(* is listened to, and an embedded session hears the channels it lists.    *)
(***************************************************************************)
EXTENDS Chat, FiniteSetTheorems, SequenceTheorems, TLAPS

Entry == [m : Message, seen : BOOLEAN]
Transcript(t) == t \in Seq(Entry) /\ Len(t) <= MaxTalk

\* The fields of App and of the sessions.
LoginType == [creating : BOOLEAN, confirming : BOOLEAN, failures : 0..3, paused : BOOLEAN,
              deleting : BOOLEAN, recreate : BOOLEAN]
ScreenType == [view : {"other", "vault", "chat"}, focus : BOOLEAN, menu : BOOLEAN,
               adding : BOOLEAN, unlocking : Group \cup {NoGroup}, cursor : Nat \ {0},
               active : Group \cup {NoGroup}]
SessType == [state : {"none", "open", "closed"}, kind : Transports \cup {"offline"}, gen : Gen,
             subs : SUBSET Conversation, keys : [Group -> GroupKey], queue : Seq(Remote),
             waiters : Nat, alone : BOOLEAN]

\* A command of a session has the arguments its operation needs.
CommandOK(c) ==
    /\ c.op \in {"join", "joined", "leave", "left"} =>
        c \in [op : {"join", "joined", "leave", "left"}, s : Session, channel : Channel]
    /\ c.op = "send" => c \in [op : {"send"}, s : Session, channel : Channel, m : Message]
    /\ c.op \in {"dm", "opengroup"} =>
        c \in [op : {"dm", "opengroup"}, s : Session, group : Group]
    /\ c.op = "unlockgroup" =>
        c \in [op : {"unlockgroup"}, s : Session \cup {0}, group : Group, key : GroupKey]
    /\ c.op = "group" =>
        /\ c \in [op : {"group"}, s : Session, group : Group \cup {NoGroup}, new : BOOLEAN]
        /\ c.new => c.group \in Group
    /\ c.op = "groupsend" =>
        c \in [op : {"groupsend"}, s : Session, group : Group, m : Message]
    /\ c.op = "contact" => c \in [op : {"contact"}, s : Session \cup {0}, invited : BOOLEAN]

\* A session exists once it has been opened, and ever after.
Exists(s) == s \in Session /\ sess[s].state # "none"

\* A message brings what Update takes from it.
MessageOK(m) ==
    /\ m.kind = "incoming" => m.m \in Remote /\ (m.group => Conv[m.m] \in Group)
    /\ m.kind = "session" /\ ~m.err =>
        Exists(m.s) /\ m.channels \in Seq(Channel) /\ m.groups \in SUBSET Group
    /\ m.kind = "group" /\ ~m.err =>
        /\ m.groups \in SUBSET Group
        /\ m.active \in Group \cup {NoGroup}
        /\ m.loaded => Transcript(m.talk)
    /\ m.kind = "channels" /\ ~m.err => m.channels \in Seq(Channel)

\* The state by its parts.
VaultOK == /\ vault \in [file : 0..MaxVaults, identity : 0..MaxVaults, made : 0..MaxVaults]
           /\ gen \in Gen
AppOK == login \in LoginType /\ screen \in ScreenType
ListsOK == /\ cur \in Session \cup {0} /\ (cur # 0 => Exists(cur))
           /\ channels \in Seq(Channel) /\ groups \in SUBSET Group
Strays == /\ stray \in [Group -> Seq(Remote)] /\ lowered \in SUBSET Group
          /\ \A g \in Group : Len(stray[g]) <= MaxTalk
TalkOK == /\ talk = [c \in Conversation |-> talk[c]]
          /\ \A c \in Conversation : Transcript(talk[c])
          /\ read \in [Conversation -> 0..MaxTalk]
          /\ Strays
SessOK == /\ sess \in [Session -> SessType]
          /\ \A s \in Session : Len(sess[s].queue) <= QueueCap
DbOK == db \in [Gen -> DbType] /\ \A x \in Gen : Distinct(db[x].channels)
FlightOK == \A c \in flight : CommandOK(c)
InboxOK == \A m \in inbox : MessageOK(m)

TInv == VaultOK /\ AppOK /\ ListsOK /\ TalkOK /\ SessOK /\ DbOK /\ FlightOK /\ InboxOK

-----------------------------------------------------------------------------
(* Sequences.                                                              *)

\* The last n of a sequence.
LEMMA LastOf ==
    ASSUME NEW S, NEW s \in Seq(S), NEW n \in Nat
    PROVE  /\ Last(s, n) \in Seq(S)
           /\ Len(s) <= n => Last(s, n) = s
           /\ Len(s) > n => /\ Len(Last(s, n)) = n
                            /\ \A i \in 1..n : Last(s, n)[i] = s[i + (Len(s) - n)]
           /\ Len(Last(s, n)) <= n
<1>0. Len(s) \in Nat
  OBVIOUS
<1>1. CASE Len(s) > n
  <2> DEFINE k == Len(s) - n + 1
  <2>1. k \in 1..(Len(s) + 1) /\ Last(s, n) = SubSeq(s, k, Len(s))
    BY <1>1 DEF Last
  <2>2. SubSeq(s, k, Len(s)) \in Seq(S) /\ Len(SubSeq(s, k, Len(s))) = Len(s) - k + 1
    BY <2>1, SubSeqProperties
  <2>3. \A i \in 1..n : SubSeq(s, k, Len(s))[i] = s[k + i - 1]
    BY <1>1, <2>1, SubSeqProperties
  <2>4. \A i \in 1..n : k + i - 1 = i + (Len(s) - n)
    BY <1>0
  <2>5. Len(s) - k + 1 = n
    BY <1>0
  <2>6. ~(Len(s) <= n)
    BY <1>0, <1>1
  <2> HIDE DEF k
  <2>7. Len(Last(s, n)) = n /\ n <= n
    BY <2>1, <2>2, <2>5
  <2>8. \A i \in 1..n : Last(s, n)[i] = s[i + (Len(s) - n)]
    BY <2>1, <2>3, <2>4
  <2> QED BY <2>1, <2>2, <2>6, <2>7, <2>8
<1>2. CASE Len(s) <= n
  <2>0. (IF Len(s) > n THEN Len(s) - n + 1 ELSE 1) = 1
    BY <1>0, <1>2
  <2>1. Last(s, n) = SubSeq(s, 1, Len(s))
    BY <2>0, Zenon DEF Last
  <2>2. SubSeq(s, 1, Len(s)) = s
    BY SubSeqFull
  <2>3. ~(Len(s) > n)
    BY <1>0, <1>2
  <2> QED BY <1>2, <2>1, <2>2, <2>3
<1> QED BY <1>0, <1>1, <1>2

\* Transcripts are what TypeOK says they are.
LEMMA TranscriptIsTalk ==
    ASSUME NEW t, Transcript(t) PROVE t \in Talks
<1>1. t \in [1..Len(t) -> Entry] /\ Len(t) \in 0..MaxTalk
  BY ChatAssumption DEF Transcript
<1> QED BY <1>1 DEF Talks, Entry

-----------------------------------------------------------------------------
(* What a session does to the sessions.                                    *)

\* The sessions x are those of the state but for subscriptions and keys.
Alike(x) ==
    /\ x \in [Session -> SessType]
    /\ \A t \in Session :
        /\ x[t].state = sess[t].state /\ x[t].kind = sess[t].kind /\ x[t].gen = sess[t].gen
        /\ x[t].queue = sess[t].queue /\ x[t].waiters = sess[t].waiters
        /\ x[t].alone = sess[t].alone
\* ... and no subscription is lost.
Hears(x) == \A t \in Session : sess[t].subs \subseteq x[t].subs

LEMMA AlikeSelf == SessOK => Alike(sess) /\ Hears(sess)
  BY DEF SessOK, Alike, Hears

LEMMA SubscribeAlike ==
    ASSUME SessOK, NEW s \in Session, NEW c \in Conversation
    PROVE  /\ Alike(Subscribe(s, c)) /\ Hears(Subscribe(s, c))
           /\ sess[s].kind # "offline" => c \in Subscribe(s, c)[s].subs
<1>1. CASE sess[s].kind = "offline"
  BY <1>1, AlikeSelf DEF Subscribe
<1>2. CASE sess[s].kind # "offline"
  <2> DEFINE r == [sess[s] EXCEPT !.subs = sess[s].subs \cup {c}]
  <2>1. /\ r \in SessType /\ r.state = sess[s].state /\ r.kind = sess[s].kind
        /\ r.gen = sess[s].gen /\ r.queue = sess[s].queue /\ r.waiters = sess[s].waiters
        /\ r.alone = sess[s].alone /\ r.subs = sess[s].subs \cup {c}
    BY DEF SessOK, SessType
  <2>2. Subscribe(s, c) = [sess EXCEPT ![s] = r]
    BY <1>2 DEF Subscribe
  <2> HIDE DEF r
  <2> QED BY <2>1, <2>2 DEF Alike, Hears, SessOK
<1> QED BY <1>1, <1>2

LEMMA UnsubscribeAlike ==
    ASSUME SessOK, NEW s \in Session, NEW c \in Conversation
    PROVE  /\ Alike(Unsubscribe(s, c))
           /\ \A t \in Session : t # s => Unsubscribe(s, c)[t] = sess[t]
           /\ Unsubscribe(s, c)[s].subs = sess[s].subs \ {c}
<1> DEFINE r == [sess[s] EXCEPT !.subs = sess[s].subs \ {c}]
<1>1. /\ r \in SessType /\ r.state = sess[s].state /\ r.kind = sess[s].kind
      /\ r.gen = sess[s].gen /\ r.queue = sess[s].queue /\ r.waiters = sess[s].waiters
      /\ r.alone = sess[s].alone /\ r.subs = sess[s].subs \ {c}
  BY DEF SessOK, SessType
<1>2. Unsubscribe(s, c) = [sess EXCEPT ![s] = r]
  BY DEF Unsubscribe
<1> HIDE DEF r
<1> QED BY <1>1, <1>2 DEF Alike, SessOK

LEMMA UnlockAlike ==
    ASSUME SessOK, NEW s \in Session, NEW g \in Group, NEW key \in GroupKey
    PROVE  Alike(UnlockPrivateGroup(s, g, key)) /\ Hears(UnlockPrivateGroup(s, g, key))
<1> DEFINE x == Subscribe(s, g)
<1>1. Alike(x) /\ Hears(x)
  BY SubscribeAlike DEF Conversation
<1> HIDE DEF x
<1> DEFINE r == [x[s] EXCEPT !.keys = [x[s].keys EXCEPT ![g] = key]]
<1>2. x[s] \in SessType /\ [x[s].keys EXCEPT ![g] = key] \in [Group -> GroupKey]
  BY <1>1 DEF Alike, SessType
<1>3. /\ r \in SessType /\ r.state = x[s].state /\ r.kind = x[s].kind
      /\ r.gen = x[s].gen /\ r.queue = x[s].queue /\ r.waiters = x[s].waiters
      /\ r.alone = x[s].alone /\ r.subs = x[s].subs
  BY <1>2 DEF SessType
<1>4. UnlockPrivateGroup(s, g, key) = [x EXCEPT ![s] = r]
  BY DEF UnlockPrivateGroup, x
<1> HIDE DEF r
<1> QED BY <1>1, <1>3, <1>4 DEF Alike, Hears

LEMMA DirectAlike ==
    ASSUME SessOK, NEW s \in Session, NEW g \in Group
    PROVE  Alike(StartDirectMessage(s, g)) /\ Hears(StartDirectMessage(s, g))
<1>1. "right" \in GroupKey /\ g \in Conversation
  BY DEF GroupKey, Conversation
<1> QED BY <1>1, UnlockAlike, SubscribeAlike DEF StartDirectMessage

-----------------------------------------------------------------------------
(* What the database keeps.                                                *)

Table(d) == d \in DbType /\ Distinct(d.channels)

\* A channel list that is joined, or left.
LEMMA JoinTable ==
    ASSUME NEW d, Table(d), NEW c \in Channel
    PROVE  /\ Table(JoinChannel(d, c))
           /\ Elems(JoinChannel(d, c).channels) = Elems(d.channels) \cup {c}
<1> DEFINE l == d.channels
           k == IF c \in Elems(l) THEN l ELSE Append(l, c)
<1>1. JoinChannel(d, c) = [d EXCEPT !.channels = k]
  BY DEF JoinChannel
<1>2. l \in Seq(Channel) /\ Distinct(l)
  BY DEF Table, DbType
<1> HIDE DEF l
<1>3. k \in Seq(Channel) /\ Distinct(k) /\ Elems(k) = Elems(l) \cup {c}
  <2>1. CASE c \in Elems(l)
    BY <1>2, <2>1
  <2>2. CASE c \notin Elems(l)
    <3>1. /\ k \in Seq(Channel) /\ Len(k) = Len(l) + 1 /\ k[Len(l) + 1] = c
          /\ \A i \in 1..Len(l) : k[i] = l[i]
      BY <1>2, <2>2
    <3>2. DOMAIN k = 1..(Len(l) + 1) /\ DOMAIN l = 1..Len(l) /\ Len(l) \in Nat
      BY <1>2, <3>1
    <3> HIDE DEF k
    <3>3. \A i \in DOMAIN l : l[i] # c
      BY <2>2 DEF Elems
    <3>4. Distinct(k)
      BY <1>2, <3>1, <3>2, <3>3 DEF Distinct
    <3>5. Elems(k) = Elems(l) \cup {c}
      BY <3>1, <3>2 DEF Elems
    <3> QED BY <3>1, <3>4, <3>5
  <2> QED BY <2>1, <2>2
<1> HIDE DEF k
<1>4. [d EXCEPT !.channels = k] \in DbType /\ [d EXCEPT !.channels = k].channels = k
  BY <1>3 DEF Table, DbType
<1> QED BY <1>1, <1>3, <1>4 DEF Table, l

LEMMA LeaveTable ==
    ASSUME NEW d, Table(d), NEW c \in Channel
    PROVE  /\ Table(LeaveChannel(d, c))
           /\ Elems(LeaveChannel(d, c).channels) \subseteq Elems(d.channels) \ {c}
<1> DEFINE l == d.channels
           places == {i \in DOMAIN l : l[i] = c}
           k == Cut(l, places)
<1>1. LeaveChannel(d, c) = [d EXCEPT !.channels = k]
  BY DEF LeaveChannel
<1>2. l \in Seq(Channel) /\ Distinct(l)
  BY DEF Table, DbType
<1> HIDE DEF l
<1>3. DOMAIN l = 1..Len(l) /\ Len(l) \in Nat /\ l \in [1..Len(l) -> Channel]
  BY <1>2
<1>4. k \in Seq(Channel) /\ Distinct(k) /\ Elems(k) \subseteq Elems(l) \ {c}
  <2>1. CASE places = {}
    <3>1. Cardinality(places) = 0
      BY <2>1, FS_EmptySet
    <3>2. k = [i \in 1..Len(l) |-> l[i]]
      BY <1>3, <2>1, <3>1 DEF Cut
    <3>3. k = l
      BY <1>3, <3>2
    <3> QED BY <1>2, <2>1, <3>3 DEF Elems
  <2>2. ASSUME NEW p \in places PROVE k \in Seq(Channel) /\ Distinct(k) /\ Elems(k) \subseteq Elems(l) \ {c}
    <3>1. p \in 1..Len(l) /\ l[p] = c
      BY <1>3
    <3>2. \A i \in 1..Len(l) : l[i] = c => i = p
      BY <1>2, <1>3, <3>1 DEF Distinct
    <3>3. places = {p}
      BY <1>3, <3>1, <3>2
    <3>4. Cardinality(places) = 1
      BY <3>3, FS_Singleton
    <3> DEFINE n == Len(l) - 1
    <3>5. n \in Nat /\ Len(l) = n + 1
      BY <1>3, <3>1
    <3>6. k = [i \in 1..n |-> IF i < p THEN l[i] ELSE l[i + 1]]
      BY <3>3, <3>4 DEF Cut
    <3> HIDE DEF k, n, places
    <3>7. k \in [1..n -> Channel]
      BY <1>3, <3>5, <3>6
    <3>8. k \in Seq(Channel) /\ DOMAIN k = 1..n
      BY <3>5, <3>7
    <3>9. \A i \in 1..n : k[i] = l[IF i < p THEN i ELSE i + 1] /\ (IF i < p THEN i ELSE i + 1) \in 1..Len(l)
      BY <1>3, <3>5, <3>6
    <3>10. Distinct(k)
      <4> SUFFICES ASSUME NEW i \in 1..n, NEW j \in 1..n, k[i] = k[j] PROVE i = j
        BY <3>8 DEF Distinct
      <4>1. (IF i < p THEN i ELSE i + 1) = (IF j < p THEN j ELSE j + 1)
        BY <1>2, <1>3, <3>9 DEF Distinct
      <4> QED BY <3>1, <3>5, <4>1
    <3>11. \A i \in 1..n : (IF i < p THEN i ELSE i + 1) # p
      BY <3>1, <3>5
    <3>12. \A i \in 1..n : k[i] # c /\ k[i] \in Elems(l)
      BY <1>3, <3>2, <3>9, <3>11 DEF Elems
    <3>13. Elems(k) \subseteq Elems(l) \ {c}
      BY <3>8, <3>12 DEF Elems
    <3> QED BY <3>8, <3>10, <3>13
  <2> QED BY <2>1, <2>2
<1> HIDE DEF k
<1>5. [d EXCEPT !.channels = k] \in DbType /\ [d EXCEPT !.channels = k].channels = k
  BY <1>4 DEF Table, DbType
<1> QED BY <1>1, <1>4, <1>5 DEF Table, l

LEMMA InsertRow ==
    ASSUME NEW S, NEW rows \in Seq(S), NEW row \in S
    PROVE  Insert(rows, row) \in Seq(S)
  BY DEF Insert

\* The other tables leave the channels alone.
LEMMA ChatTable ==
    ASSUME NEW d, Table(d), NEW c \in Channel, NEW m \in Message
    PROVE  Table(SaveChatMessage(d, c, m)) /\ SaveChatMessage(d, c, m).channels = d.channels
<1> DEFINE r == Insert(d.chat[c], [m |-> m])
           k == [d.chat EXCEPT ![c] = r]
<1>1. SaveChatMessage(d, c, m) = [d EXCEPT !.chat = k]
  BY DEF SaveChatMessage
<1>2. d.chat \in [Channel -> Seq([m : Message])] /\ [m |-> m] \in [m : Message]
  BY DEF Table, DbType
<1>3. r \in Seq([m : Message])
  BY <1>2, InsertRow
<1> HIDE DEF r
<1>4. k \in [Channel -> Seq([m : Message])]
  BY <1>2, <1>3
<1> HIDE DEF k
<1>5. [d EXCEPT !.chat = k] \in DbType /\ [d EXCEPT !.chat = k].channels = d.channels
  BY <1>4 DEF Table, DbType
<1> QED BY <1>1, <1>5 DEF Table

LEMMA GroupTable ==
    ASSUME NEW d, Table(d), NEW g \in Group, NEW m \in Message, NEW key \in GroupKey
    PROVE  /\ Table(SavePrivateGroupMessage(d, g, m, key))
           /\ SavePrivateGroupMessage(d, g, m, key).channels = d.channels
<1> DEFINE r == Insert(d.rows[g], [m |-> m, key |-> key])
           k == [d.rows EXCEPT ![g] = r]
<1>1. SavePrivateGroupMessage(d, g, m, key) = [d EXCEPT !.rows = k]
  BY DEF SavePrivateGroupMessage
<1>2. /\ d.rows \in [Group -> Seq([m : Message, key : GroupKey])]
      /\ [m |-> m, key |-> key] \in [m : Message, key : GroupKey]
  BY DEF Table, DbType
<1>3. r \in Seq([m : Message, key : GroupKey])
  BY <1>2, InsertRow
<1> HIDE DEF r
<1>4. k \in [Group -> Seq([m : Message, key : GroupKey])]
  BY <1>2, <1>3
<1> HIDE DEF k
<1>5. [d EXCEPT !.rows = k] \in DbType /\ [d EXCEPT !.rows = k].channels = d.channels
  BY <1>4 DEF Table, DbType
<1> QED BY <1>1, <1>5 DEF Table

LEMMA OtherTables ==
    ASSUME NEW d, Table(d), NEW g \in Group
    PROVE  /\ Table(SavePrivateGroup(d, g)) /\ SavePrivateGroup(d, g).channels = d.channels
           /\ Table(SetNickname(d)) /\ SetNickname(d).channels = d.channels
  BY DEF Table, DbType, SavePrivateGroup, SetNickname

LEMMA PrunedTable ==
    ASSUME NEW d, Table(d)
    PROVE  Table(PruneChatMessages(d)) /\ PruneChatMessages(d).channels = d.channels
<1>1. <<>> \in Seq([m : Message])
  OBVIOUS
<1> DEFINE k == [c \in Channel |-> <<>>]
<1>2. k \in [Channel -> Seq([m : Message])]
  BY <1>1
<1>3. PruneChatMessages(d) = [d EXCEPT !.chat = k]
  BY DEF PruneChatMessages
<1> HIDE DEF k
<1> QED BY <1>2, <1>3 DEF Table, DbType

LEMMA DefaultTable ==
    ASSUME NEW d, Table(d) PROVE Table(EnsureDefaultChannels(d))
  BY ChatAssumption DEF Table, DbType, EnsureDefaultChannels

\* The history of a group is a transcript.
LEMMA HistoryOK ==
    ASSUME NEW d, Table(d), NEW g \in Group, NEW key
    PROVE  MessageOK(PrivateGroupMessages(d, g, key))
<1> DEFINE rows == ListPrivateGroupMessages(d, g)
           t == [i \in DOMAIN rows |-> [m |-> rows[i].m, seen |-> TRUE]]
<1>1. d.rows[g] \in Seq([m : Message, key : GroupKey])
  BY DEF Table, DbType
<1>2. HistoryLimit \in Nat /\ MaxTalk \in Nat /\ HistoryLimit <= MaxTalk
  BY ChatAssumption
<1>3. rows \in Seq([m : Message, key : GroupKey]) /\ Len(rows) <= HistoryLimit
  BY <1>1, <1>2, LastOf DEF ListPrivateGroupMessages
<1> HIDE DEF rows
<1>4. DOMAIN rows = 1..Len(rows) /\ Len(rows) \in Nat
  BY <1>3
<1>5. ASSUME NEW i \in 1..Len(rows) PROVE [m |-> rows[i].m, seen |-> TRUE] \in Entry
  <2>1. rows[i] \in [m : Message, key : GroupKey]
    BY <1>3, ElementOfSeq
  <2>2. rows[i].m \in Message
    BY <2>1
  <2> QED BY <2>2 DEF Entry
<1>6. t \in Seq(Entry) /\ Len(t) = Len(rows)
  BY <1>4, <1>5
<1> HIDE DEF t
<1>7. Transcript(t)
  BY <1>2, <1>3, <1>4, <1>6 DEF Transcript
<1>8. d.groups \in SUBSET Group
  BY DEF Table, DbType
<1>9. CASE PrivateGroupMessages(d, g, key) = GroupErr
  BY <1>9 DEF MessageOK, GroupErr
<1>10. CASE PrivateGroupMessages(d, g, key) = GroupMsg(d.groups, g, TRUE, t)
  BY <1>7, <1>8, <1>10 DEF MessageOK, GroupMsg
<1> QED BY <1>9, <1>10 DEF PrivateGroupMessages, rows, t

-----------------------------------------------------------------------------
(* Types survive every step: the ways a command may end.                   *)

\* No session is forgotten.
Lasting == \A s : Exists(s) => Exists(s)'

LEMMA MessageStays ==
    ASSUME Lasting, NEW m, MessageOK(m) PROVE MessageOK(m)'
  BY DEF Lasting, MessageOK, Transcript

LEMMA EndsOK ==
    ASSUME TInv, Lasting, NEW c, NEW msgs, Ends(c, msgs), \A m \in msgs : MessageOK(m)'
    PROVE  AppOK' /\ ListsOK' /\ TalkOK' /\ FlightOK' /\ InboxOK'
<1>1. AppOK' /\ TalkOK'
  BY DEF TInv, AppOK, TalkOK, Strays, Ends, chat, shown
<1>2. ListsOK'
  BY DEF TInv, ListsOK, Ends, chat, Lasting
<1>3. FlightOK'
  BY DEF TInv, FlightOK, Ends, CommandOK
<1>4. InboxOK'
  BY MessageStays DEF TInv, InboxOK, Ends
<1> QED BY <1>1, <1>2, <1>3, <1>4

LEMMA AlikeOK ==
    ASSUME SessOK, Alike(sess') PROVE SessOK' /\ Lasting
  BY DEF SessOK, Alike, Lasting, Exists

LEMMA StoredOK ==
    ASSUME DbOK, SessOK, NEW s \in Session, NEW d, Table(d), db' = Stored(s, d)
    PROVE  /\ DbOK'
           /\ \A x \in Gen : db'[x] = IF x = sess[s].gen THEN d ELSE db[x]
<1>1. sess[s].gen \in Gen
  BY DEF SessOK, SessType
<1>2. db' = [db EXCEPT ![sess[s].gen] = d]
  BY DEF Stored
<1> QED BY <1>1, <1>2 DEF DbOK, Table

LEMMA DataOK ==
    ASSUME DbOK, SessOK, NEW s \in Session PROVE Table(Data(s))
<1>1. sess[s].gen \in Gen
  BY DEF SessOK, SessType
<1> QED BY <1>1 DEF DbOK, Table, Data

LEMMA DoesOK ==
    ASSUME TInv, NEW c, NEW d, NEW x, NEW msgs, Does(c, d, x, msgs), c.s \in Session \cup {0},
           Table(d), Alike(x), \A m \in msgs : MessageOK(m)
    PROVE  TInv'
<1>1. c.s \in Session
  BY DEF Does, IsOpen
<1>2. SessOK' /\ Lasting
  BY AlikeOK DEF Does, TInv
<1>3. DbOK'
  BY <1>1, StoredOK DEF Does, TInv
<1>4. \A m \in msgs : MessageOK(m)'
  BY <1>2, MessageStays
<1>5. AppOK' /\ ListsOK' /\ TalkOK' /\ FlightOK' /\ InboxOK'
  BY <1>2, <1>4, EndsOK DEF Does
<1>6. VaultOK'
  BY DEF Does, TInv, VaultOK
<1> QED BY <1>2, <1>3, <1>5, <1>6 DEF TInv

LEMMA FailsOK ==
    ASSUME TInv, NEW c, NEW msg, MessageOK(msg), Fails(c, msg)
    PROVE  TInv'
<1>1. SessOK' /\ DbOK' /\ VaultOK' /\ Lasting
  BY DEF Fails, TInv, SessOK, DbOK, VaultOK, Lasting, Exists
<1>2. \A m \in {msg} : MessageOK(m)'
  BY <1>1, MessageStays
<1>3. AppOK' /\ ListsOK' /\ TalkOK' /\ FlightOK' /\ InboxOK'
  BY <1>1, <1>2, EndsOK DEF Fails
<1> QED BY <1>1, <1>3 DEF TInv

LEMMA ContinuesOK ==
    ASSUME TInv, NEW c \in flight, NEW op, NEW d, NEW x, Continues(c, op, d, x),
           c.op \in {"join", "leave"}, op \in {"joined", "left"}, Table(d), Alike(x)
    PROVE  TInv'
<1>1. c \in [op : {"join", "joined", "leave", "left"}, s : Session, channel : Channel]
  BY DEF TInv, FlightOK, CommandOK
<1>2. SessOK' /\ Lasting
  BY AlikeOK DEF Continues, TInv
<1>3. c.s \in Session
  BY <1>1
<1>4. DbOK'
  BY <1>3, StoredOK DEF Continues, TInv
<1>5. CommandOK([c EXCEPT !.op = op])
  BY <1>1 DEF CommandOK
<1>6. FlightOK'
  BY <1>5 DEF Continues, TInv, FlightOK, CommandOK
<1>7. VaultOK' /\ AppOK' /\ TalkOK'
  BY DEF Continues, TInv, VaultOK, AppOK, TalkOK, Strays, chat, shown
<1>8. ListsOK'
  BY <1>2 DEF TInv, ListsOK, Continues, chat, Lasting
<1>9. InboxOK'
  BY <1>2, MessageStays DEF TInv, InboxOK, Continues
<1> QED BY <1>2, <1>4, <1>6, <1>7, <1>8, <1>9 DEF TInv

\* The errors are messages.
LEMMA ErrorsOK ==
    /\ MessageOK(GroupErr) /\ MessageOK(ChannelsErr)
    /\ \A e, i : MessageOK(ContactMsg(e, i))
  BY DEF MessageOK, GroupErr, ChannelsErr, ContactMsg

\* The commands on channels.
LEMMA ChannelCommands ==
    ASSUME TInv, GandrJoin \/ Joined \/ GandrLeave \/ Left \/ SendChannel
    PROVE  TInv'
<1>0. SessOK /\ DbOK
  BY DEF TInv
<1>1. ASSUME NEW c \in flight, c.op \in {"join", "joined", "leave", "left"}
      PROVE  /\ c.s \in Session /\ c.channel \in Channel /\ c.channel \in Conversation
             /\ Table(Data(c.s))
  <2>1. c.s \in Session /\ c.channel \in Channel
    BY <1>1 DEF TInv, FlightOK, CommandOK
  <2> QED BY <2>1, <1>0, DataOK DEF Conversation
<1>2. ASSUME NEW c, Refused(c, ChannelsErr) \/ Fails(c, ChannelsErr) PROVE TInv'
  BY <1>2, ErrorsOK, FailsOK DEF Refused
<1>3. ASSUME NEW d, Table(d) PROVE \A m \in {ChannelsMsg(d.channels)} : MessageOK(m)
  BY <1>3 DEF ChannelsMsg, MessageOK, Table, DbType
<1>4. CASE GandrJoin
  <2>1. PICK c \in flight : c.op = "join" /\ (Refused(c, ChannelsErr)
              \/ Continues(c, "joined", JoinChannel(Data(c.s), c.channel), sess))
    BY <1>4 DEF GandrJoin
  <2>2. Table(JoinChannel(Data(c.s), c.channel)) /\ Alike(sess)
    BY <1>0, <1>1, <2>1, JoinTable, AlikeSelf
  <2> QED BY <1>2, <2>1, <2>2, ContinuesOK
<1>5. CASE Joined
  <2>1. PICK c \in flight : c.op = "joined" /\ (Refused(c, ChannelsErr) \/ Fails(c, ChannelsErr)
              \/ Does(c, Data(c.s), Subscribe(c.s, c.channel), {ChannelsMsg(Data(c.s).channels)}))
    BY <1>5 DEF Joined
  <2>2. Table(Data(c.s)) /\ Alike(Subscribe(c.s, c.channel)) /\ c.s \in Session
    BY <1>0, <1>1, <2>1, SubscribeAlike
  <2>3. \A m \in {ChannelsMsg(Data(c.s).channels)} : MessageOK(m)
    BY <1>3, <2>2
  <2> QED BY <1>2, <2>1, <2>2, <2>3, DoesOK
<1>6. CASE GandrLeave
  <2>1. PICK c \in flight : c.op = "leave" /\ (Refused(c, ChannelsErr)
              \/ Continues(c, "left", Data(c.s), Unsubscribe(c.s, c.channel)))
    BY <1>6 DEF GandrLeave
  <2>2. Table(Data(c.s)) /\ Alike(Unsubscribe(c.s, c.channel))
    BY <1>0, <1>1, <2>1, UnsubscribeAlike
  <2> QED BY <1>2, <2>1, <2>2, ContinuesOK
<1>7. CASE Left
  <2>1. PICK c \in flight : c.op = "left" /\ (Refused(c, ChannelsErr)
              \/ Does(c, LeaveChannel(Data(c.s), c.channel), sess,
                      {ChannelsMsg(LeaveChannel(Data(c.s), c.channel).channels)}))
    BY <1>7 DEF Left
  <2>2. Table(LeaveChannel(Data(c.s), c.channel)) /\ Alike(sess) /\ c.s \in Session
    BY <1>0, <1>1, <2>1, LeaveTable, AlikeSelf
  <2>3. \A m \in {ChannelsMsg(LeaveChannel(Data(c.s), c.channel).channels)} : MessageOK(m)
    BY <1>3, <2>2
  <2> QED BY <1>2, <2>1, <2>2, <2>3, DoesOK
<1>8. CASE SendChannel
  <2>1. PICK c \in flight : c.op = "send" /\ (Refused(c, ChannelsErr) \/ Fails(c, ChannelsErr)
              \/ Does(c, SaveChatMessage(Data(c.s), c.channel, c.m), sess, {}))
    BY <1>8 DEF SendChannel
  <2>2. c.s \in Session /\ c.channel \in Channel /\ c.m \in Message
    BY <2>1 DEF TInv, FlightOK, CommandOK
  <2>3. Table(SaveChatMessage(Data(c.s), c.channel, c.m)) /\ Alike(sess)
    BY <1>0, <2>2, DataOK, ChatTable, AlikeSelf
  <2>4. \A m \in {} : MessageOK(m)
    OBVIOUS
  <2> QED BY <1>2, <2>1, <2>2, <2>3, <2>4, DoesOK
<1> QED BY <1>4, <1>5, <1>6, <1>7, <1>8

\* The commands on groups and contacts.
LEMMA GroupCommands ==
    ASSUME TInv,
           \/ UnlockAndOpenGandrGroup \/ StartGandrDM \/ OpenGandrGroup \/ GandrGroupCommand
           \/ SendPrivateGroup \/ AddGandrContact \/ AcceptInvitation
    PROVE  TInv'
<1>0. SessOK /\ DbOK /\ Alike(sess)
  BY AlikeSelf DEF TInv
<1>1. ASSUME NEW c, Refused(c, GroupErr) \/ Fails(c, GroupErr) PROVE TInv'
  BY <1>1, ErrorsOK, FailsOK DEF Refused
<1>2. ASSUME NEW d, Table(d), NEW g \in Group, NEW key
      PROVE  \A m \in {PrivateGroupMessages(d, g, key)} : MessageOK(m)
  BY <1>2, HistoryOK
<1>3. ASSUME NEW d, Table(d), NEW g \in Group \cup {NoGroup}
      PROVE  \A m \in {GroupMsg(d.groups, g, FALSE, <<>>)} : MessageOK(m)
  BY <1>3 DEF GroupMsg, MessageOK, Table, DbType
<1>4. ASSUME NEW c, NEW d, NEW x, NEW msgs, Does(c, d, x, msgs), c.s \in Session \cup {0}
      PROVE  c.s \in Session /\ Table(Data(c.s))
  <2>1. c.s \in Session
    BY <1>4 DEF Does, IsOpen
  <2> QED BY <2>1, <1>0, DataOK
<1>5. CASE UnlockAndOpenGandrGroup
  <2>1. PICK c \in flight : c.op = "unlockgroup" /\ (Refused(c, GroupErr)
              \/ Does(c, SavePrivateGroup(Data(c.s), c.group),
                      UnlockPrivateGroup(c.s, c.group, c.key),
                      {PrivateGroupMessages(SavePrivateGroup(Data(c.s), c.group), c.group, c.key)}))
    BY <1>5 DEF UnlockAndOpenGandrGroup
  <2>2. c.s \in Session \cup {0} /\ c.group \in Group /\ c.key \in GroupKey
    BY <2>1 DEF TInv, FlightOK, CommandOK
  <2>3. CASE Does(c, SavePrivateGroup(Data(c.s), c.group),
                  UnlockPrivateGroup(c.s, c.group, c.key),
                  {PrivateGroupMessages(SavePrivateGroup(Data(c.s), c.group), c.group, c.key)})
    <3>1. c.s \in Session /\ Table(Data(c.s))
      BY <1>4, <2>2, <2>3
    <3>2. Table(SavePrivateGroup(Data(c.s), c.group)) /\ Alike(UnlockPrivateGroup(c.s, c.group, c.key))
      BY <1>0, <2>2, <3>1, OtherTables, UnlockAlike
    <3>3. \A m \in {PrivateGroupMessages(SavePrivateGroup(Data(c.s), c.group), c.group, c.key)} : MessageOK(m)
      BY <1>2, <2>2, <3>2
    <3> QED BY <2>2, <2>3, <3>2, <3>3, DoesOK
  <2> QED BY <1>1, <2>1, <2>3
<1>6. CASE StartGandrDM
  <2>1. PICK c \in flight : c.op = "dm" /\ (Refused(c, GroupErr)
              \/ Does(c, SavePrivateGroup(Data(c.s), c.group), StartDirectMessage(c.s, c.group),
                      {PrivateGroupMessages(SavePrivateGroup(Data(c.s), c.group), c.group, "right")}))
    BY <1>6 DEF StartGandrDM
  <2>2. c.s \in Session /\ c.group \in Group
    BY <2>1 DEF TInv, FlightOK, CommandOK
  <2>3. Table(SavePrivateGroup(Data(c.s), c.group)) /\ Alike(StartDirectMessage(c.s, c.group))
    BY <1>0, <2>2, DataOK, OtherTables, DirectAlike
  <2>4. \A m \in {PrivateGroupMessages(SavePrivateGroup(Data(c.s), c.group), c.group, "right")} : MessageOK(m)
    BY <1>2, <2>2, <2>3
  <2> QED BY <1>1, <2>1, <2>2, <2>3, <2>4, DoesOK
<1>7. CASE OpenGandrGroup
  <2>1. PICK c \in flight : c.op = "opengroup" /\ (Refused(c, GroupErr)
              \/ Does(c, Data(c.s), sess,
                      {PrivateGroupMessages(Data(c.s), c.group, sess[c.s].keys[c.group])}))
    BY <1>7 DEF OpenGandrGroup
  <2>2. c.s \in Session /\ c.group \in Group
    BY <2>1 DEF TInv, FlightOK, CommandOK
  <2>3. Table(Data(c.s))
    BY <1>0, <2>2, DataOK
  <2>4. \A m \in {PrivateGroupMessages(Data(c.s), c.group, sess[c.s].keys[c.group])} : MessageOK(m)
    BY <1>2, <2>2, <2>3
  <2> QED BY <1>0, <1>1, <2>1, <2>2, <2>3, <2>4, DoesOK
<1>8. CASE GandrGroupCommand
  <2>1. PICK c \in flight : c.op = "group" /\
          (\/ Refused(c, GroupErr) \/ Fails(c, GroupErr)
           \/ c.new /\ Does(c, SavePrivateGroup(Data(c.s), c.group), CreatePrivateGroup(c.s, c.group),
                        {GroupMsg(SavePrivateGroup(Data(c.s), c.group).groups, c.group, FALSE, <<>>)})
           \/ Does(c, Data(c.s), sess, {GroupMsg(Data(c.s).groups, c.group, FALSE, <<>>)}))
    BY <1>8 DEF GandrGroupCommand
  <2>2. c.s \in Session /\ c.group \in Group \cup {NoGroup} /\ (c.new => c.group \in Group)
    BY <2>1 DEF TInv, FlightOK, CommandOK
  <2>3. Table(Data(c.s))
    BY <1>0, <2>2, DataOK
  <2>4. CASE c.new /\ Does(c, SavePrivateGroup(Data(c.s), c.group), CreatePrivateGroup(c.s, c.group),
                        {GroupMsg(SavePrivateGroup(Data(c.s), c.group).groups, c.group, FALSE, <<>>)})
    <3>1. c.group \in Group /\ "right" \in GroupKey
      BY <2>2, <2>4 DEF GroupKey
    <3>2. Table(SavePrivateGroup(Data(c.s), c.group)) /\ Alike(CreatePrivateGroup(c.s, c.group))
      BY <1>0, <2>2, <2>3, <3>1, OtherTables, UnlockAlike DEF CreatePrivateGroup
    <3>3. \A m \in {GroupMsg(SavePrivateGroup(Data(c.s), c.group).groups, c.group, FALSE, <<>>)} : MessageOK(m)
      BY <1>3, <3>1, <3>2
    <3> QED BY <2>2, <2>4, <3>2, <3>3, DoesOK
  <2>5. CASE Does(c, Data(c.s), sess, {GroupMsg(Data(c.s).groups, c.group, FALSE, <<>>)})
    <3>1. \A m \in {GroupMsg(Data(c.s).groups, c.group, FALSE, <<>>)} : MessageOK(m)
      BY <1>3, <2>2, <2>3
    <3> QED BY <1>0, <2>2, <2>3, <2>5, <3>1, DoesOK
  <2> QED BY <1>1, <2>1, <2>4, <2>5
<1>9. CASE SendPrivateGroup
  <2>1. PICK c \in flight : c.op = "groupsend" /\
          (\/ Refused(c, GroupErr) \/ Fails(c, GroupErr)
           \/ Does(c, SavePrivateGroupMessage(Data(c.s), c.group, c.m, sess[c.s].keys[c.group]), sess,
                   {PrivateGroupMessages(SavePrivateGroupMessage(Data(c.s), c.group, c.m, sess[c.s].keys[c.group]),
                                         c.group, sess[c.s].keys[c.group])}))
    BY <1>9 DEF SendPrivateGroup
  <2>2. c.s \in Session /\ c.group \in Group /\ c.m \in Message
    BY <2>1 DEF TInv, FlightOK, CommandOK
  <2>3. sess[c.s].keys[c.group] \in GroupKey
    BY <1>0, <2>2 DEF SessOK, SessType
  <2>4. Table(SavePrivateGroupMessage(Data(c.s), c.group, c.m, sess[c.s].keys[c.group]))
    BY <1>0, <2>2, <2>3, DataOK, GroupTable
  <2>5. \A m \in {PrivateGroupMessages(SavePrivateGroupMessage(Data(c.s), c.group, c.m, sess[c.s].keys[c.group]),
                                       c.group, sess[c.s].keys[c.group])} : MessageOK(m)
    BY <1>2, <2>2, <2>4
  <2> QED BY <1>0, <1>1, <2>1, <2>2, <2>4, <2>5, DoesOK
<1>10. ASSUME NEW c \in flight, c.op = "contact", NEW e, NEW i,
              \/ Fails(c, ContactMsg(e, i))
              \/ Does(c, SetNickname(Data(c.s)), sess, {ContactMsg(e, i)})
       PROVE  TInv'
  <2>1. CASE Fails(c, ContactMsg(e, i))
    BY <2>1, ErrorsOK, FailsOK
  <2>2. CASE Does(c, SetNickname(Data(c.s)), sess, {ContactMsg(e, i)})
    <3>1. c.s \in Session \cup {0}
      BY <1>10 DEF TInv, FlightOK, CommandOK
    <3>2. c.s \in Session /\ Table(Data(c.s))
      BY <1>4, <2>2, <3>1
    <3>3. Table(SetNickname(Data(c.s)))
      BY <3>2 DEF Table, DbType, SetNickname
    <3>4. \A m \in {ContactMsg(e, i)} : MessageOK(m)
      BY ErrorsOK
    <3> QED BY <1>0, <2>2, <3>1, <3>3, <3>4, DoesOK
  <2> QED BY <1>10, <2>1, <2>2
<1>11. CASE AddGandrContact
  BY <1>10, <1>11 DEF AddGandrContact
<1>12. CASE AcceptInvitation
  BY <1>10, <1>12 DEF AcceptInvitation
<1> QED BY <1>5, <1>6, <1>7, <1>8, <1>9, <1>11, <1>12

\* The commands on the vault, but for connectGandr.
LEMMA VaultCommands ==
    ASSUME TInv, UnlockGandr \/ CreateGandr \/ SaveKeyfile \/ DeleteGandr
    PROVE  TInv'
<1>1. UNCHANGED <<sess, db>>
  BY DEF UnlockGandr, CreateGandr, SaveKeyfile, DeleteGandr
<1>2. SessOK' /\ DbOK' /\ Lasting
  BY <1>1 DEF TInv, SessOK, DbOK, Lasting, Exists
<1>3. ASSUME NEW c, NEW msg, Ends(c, {msg}), msg.kind \in {"vault", "delete"}
      PROVE  AppOK' /\ ListsOK' /\ TalkOK' /\ FlightOK' /\ InboxOK'
  <2>1. \A m \in {msg} : MessageOK(m)'
    BY <1>3 DEF MessageOK
  <2> QED BY <1>2, <1>3, <2>1, EndsOK
<1>4. CASE UnlockGandr
  <2>1. AppOK' /\ ListsOK' /\ TalkOK' /\ FlightOK' /\ InboxOK'
    BY <1>3, <1>4 DEF UnlockGandr
  <2>2. VaultOK'
    <3>1. PICK v \in {vault.file, 0} : vault' = [vault EXCEPT !.identity = v] /\ UNCHANGED gen
      BY <1>4 DEF UnlockGandr
    <3>2. v \in 0..MaxVaults
      BY ChatAssumption DEF TInv, VaultOK
    <3> QED BY <3>1, <3>2 DEF TInv, VaultOK
  <2> QED BY <1>2, <2>1, <2>2 DEF TInv
<1>5. CASE CreateGandr
  <2>1. VaultOK'
    BY <1>5 DEF CreateGandr, TInv, VaultOK
  <2>2. PICK c \in flight :
          IF vault.file # 0
          THEN Ends(c, {[kind |-> "vault", err |-> TRUE, created |-> TRUE, n |-> c.n]})
          ELSE /\ flight' = (flight \ {c}) \cup {[op |-> "save", n |-> c.n]}
               /\ UNCHANGED <<login, screen, chat, world, keys, inbox>>
    BY <1>5 DEF CreateGandr
  <2>3. CASE Ends(c, {[kind |-> "vault", err |-> TRUE, created |-> TRUE, n |-> c.n]})
    <3>1. AppOK' /\ ListsOK' /\ TalkOK' /\ FlightOK' /\ InboxOK'
      BY <1>3, <2>3
    <3> QED BY <1>2, <2>1, <3>1 DEF TInv
  <2>4. CASE /\ flight' = (flight \ {c}) \cup {[op |-> "save", n |-> c.n]}
             /\ UNCHANGED <<login, screen, chat, world, keys, inbox>>
    <3>1. AppOK' /\ TalkOK' /\ ListsOK'
      BY <1>2, <2>4 DEF TInv, AppOK, TalkOK, Strays, ListsOK, chat, shown, Lasting
    <3>2. CommandOK([op |-> "save", n |-> c.n])
      BY DEF CommandOK
    <3>3. FlightOK'
      BY <2>4, <3>2 DEF TInv, FlightOK, CommandOK
    <3>4. InboxOK'
      BY <1>2, <2>4, MessageStays DEF TInv, InboxOK
    <3> QED BY <1>2, <2>1, <3>1, <3>3, <3>4 DEF TInv
  <2> QED BY <2>2, <2>3, <2>4
<1>6. CASE SaveKeyfile
  <2>1. AppOK' /\ ListsOK' /\ TalkOK' /\ FlightOK' /\ InboxOK'
    BY <1>3, <1>6 DEF SaveKeyfile
  <2>2. /\ vault.made < MaxVaults /\ UNCHANGED gen
        /\ vault' = [file |-> vault.made + 1, identity |-> vault.made + 1, made |-> vault.made + 1]
    BY <1>6 DEF SaveKeyfile
  <2>3. vault.made \in 0..MaxVaults /\ MaxVaults \in Nat
    BY ChatAssumption DEF TInv, VaultOK
  <2>4. vault.made + 1 \in 0..MaxVaults
    BY <2>2, <2>3
  <2>5. VaultOK'
    BY <2>2, <2>4 DEF TInv, VaultOK
  <2> QED BY <1>2, <2>1, <2>5 DEF TInv
<1>7. CASE DeleteGandr
  <2>1. AppOK' /\ ListsOK' /\ TalkOK' /\ FlightOK' /\ InboxOK'
    BY <1>3, <1>7 DEF DeleteGandr
  <2>2. /\ UNCHANGED vault \/ vault' = [vault EXCEPT !.file = 0]
        /\ gen' = gen \/ (gen < MaxVaults + 1 /\ gen' = gen + 1)
    BY <1>7 DEF DeleteGandr
  <2>3. gen' \in Gen
    BY <2>2, ChatAssumption DEF TInv, VaultOK, Gen
  <2>4. VaultOK'
    <3>1. 0 \in 0..MaxVaults
      BY ChatAssumption
    <3> QED BY <2>2, <2>3, <3>1 DEF TInv, VaultOK
  <2> QED BY <1>2, <2>1, <2>4 DEF TInv
<1> QED BY <1>4, <1>5, <1>6, <1>7

\* connectGandr opens a session that did not exist, or none.
LEMMA ConnectSteps ==
    ASSUME TInv, ConnectGandr
    PROVE  /\ UNCHANGED <<vault, gen>>
           /\ \E c \in flight : c.op = "connect" /\
                \/ Fails(c, [kind |-> "session", err |-> TRUE])
                \/ \E s \in Session, kind \in Transports, subscribed \in BOOLEAN : \E d :
                     sess[s].state = "none" /\ Table(d) /\ Opens(c, s, kind, d, subscribed)
<1> DEFINE free == {s \in Session : sess[s].state = "none"}
           D(old) == EnsureDefaultChannels(IF old THEN PruneChatMessages(db[gen]) ELSE db[gen])
<1>1. PICK c \in flight, kind \in Transports, subscribed \in BOOLEAN, old \in BOOLEAN :
        /\ \/ Ends(c, {[kind |-> "session", err |-> TRUE]}) /\ UNCHANGED <<sess, db>>
           \/ free # {} /\ Opens(c, CHOOSE s \in free : TRUE, kind, D(old), subscribed)
        /\ c.op = "connect" /\ UNCHANGED <<vault, gen>>
  BY DEF ConnectGandr
<1>2. Table(db[gen])
  BY DEF TInv, VaultOK, DbOK, Table
<1>3. Table(D(old))
  BY <1>2, PrunedTable, DefaultTable
<1> HIDE DEF D
<1>4. CASE Ends(c, {[kind |-> "session", err |-> TRUE]}) /\ UNCHANGED <<sess, db>>
  BY <1>1, <1>4 DEF Fails
<1>5. CASE free # {} /\ Opens(c, CHOOSE s \in free : TRUE, kind, D(old), subscribed)
  <2>1. (CHOOSE s \in free : TRUE) \in free
    BY <1>5
  <2> DEFINE s == CHOOSE x \in free : TRUE
  <2>2. s \in Session /\ sess[s].state = "none" /\ Opens(c, s, kind, D(old), subscribed)
    BY <1>5, <2>1
  <2> HIDE DEF s
  <2> QED BY <1>1, <1>3, <2>2
<1> QED BY <1>1, <1>4, <1>5

\* The sessions after one was opened: the others only meet it.
LEMMA OpensSessions ==
    ASSUME TInv, NEW c, NEW s \in Session, NEW kind \in Transports, NEW d, NEW subscribed \in BOOLEAN,
           sess[s].state = "none", Table(d), Opens(c, s, kind, d, subscribed)
    PROVE  /\ SessOK' /\ Lasting /\ Exists(s)'
           /\ \A x \in Session : x # s =>
                /\ sess'[x].state = sess[x].state /\ sess'[x].kind = sess[x].kind
                /\ sess'[x].gen = sess[x].gen /\ sess'[x].waiters = sess[x].waiters
                /\ sess'[x].subs = sess[x].subs
                /\ sess'[x].alone = (sess[x].alone /\ ~IsOpen(x))
           /\ sess'[s].gen = gen
           /\ sess'[s].state = IF subscribed THEN "open" ELSE "closed"
           /\ sess'[s].alone = \A y \in Session : ~IsOpen(y)
           /\ kind # "offline" => sess'[s].subs = Elems(d.channels)
<1> DEFINE new == Connect(kind, d.channels, subscribed)
<1>1. d.channels \in Seq(Channel) /\ gen \in Gen
  BY DEF Table, DbType, TInv, VaultOK
<1>2. Elems(d.channels) \subseteq Conversation
  BY <1>1 DEF Elems, Conversation
<1>3. NoSession \in SessType /\ Len(NoSession.queue) = 0
  <2>1. <<>> \in Seq(Remote) /\ [g \in Group |-> "none"] \in [Group -> GroupKey] /\ 1 \in Gen
    BY ChatAssumption DEF GroupKey, Gen
  <2> QED BY <2>1 DEF NoSession, SessType
<1>4. (\A y \in Session : ~IsOpen(y)) \in BOOLEAN
  OBVIOUS
<1>5. /\ new \in SessType /\ Len(new.queue) <= QueueCap /\ new.gen = gen
      /\ new.state = IF subscribed THEN "open" ELSE "closed"
      /\ new.alone = \A y \in Session : ~IsOpen(y)
      /\ kind # "offline" => new.subs = Elems(d.channels)
  <2> DEFINE lone == \A y \in Session : ~IsOpen(y)
             heard == IF kind = "offline" THEN {} ELSE Elems(d.channels)
             r == [NoSession EXCEPT !.state = "open", !.kind = kind, !.gen = gen,
                                    !.subs = heard, !.alone = lone]
  <2>1. lone \in BOOLEAN /\ heard \in SUBSET Conversation
    BY <1>2, <1>4
  <2>2. NewSession(kind, d.channels) = r
    BY DEF NewSession
  <2>3. kind # "offline" => heard = Elems(d.channels)
    OBVIOUS
  <2> HIDE DEF lone, heard
  <2>4. /\ r \in SessType /\ r.queue = NoSession.queue /\ r.gen = gen
        /\ r.state = "open" /\ r.alone = lone /\ r.subs = heard
    BY <1>1, <1>3, <2>1 DEF SessType
  <2> HIDE DEF r
  <2>5. new = [r EXCEPT !.state = IF subscribed THEN r.state ELSE "closed"]
    BY <2>2 DEF Connect, new
  <2>6. /\ new \in SessType /\ new.queue = NoSession.queue /\ new.gen = gen
        /\ new.state = (IF subscribed THEN "open" ELSE "closed")
        /\ new.alone = lone /\ new.subs = heard
    BY <2>4, <2>5 DEF SessType
  <2>7. Len(new.queue) <= QueueCap
    BY <1>3, <2>6, ChatAssumption
  <2> QED BY <2>3, <2>6, <2>7 DEF lone
<1> HIDE DEF new
<1>6. ASSUME NEW x \in Session, x # s
      PROVE  /\ sess'[x] \in SessType /\ sess'[x].queue = sess[x].queue
             /\ sess'[x].state = sess[x].state /\ sess'[x].kind = sess[x].kind
             /\ sess'[x].gen = sess[x].gen /\ sess'[x].waiters = sess[x].waiters
             /\ sess'[x].subs = sess[x].subs
             /\ sess'[x].alone = (sess[x].alone /\ ~IsOpen(x))
  <2> DEFINE b == sess[x].alone /\ ~IsOpen(x)
  <2>1. sess[x] \in SessType /\ b \in BOOLEAN
    BY DEF TInv, SessOK
  <2>2. sess'[x] = [sess[x] EXCEPT !.alone = b]
    BY <1>6 DEF Opens
  <2> HIDE DEF b
  <2>3. /\ sess'[x] \in SessType /\ sess'[x].queue = sess[x].queue
        /\ sess'[x].state = sess[x].state /\ sess'[x].kind = sess[x].kind
        /\ sess'[x].gen = sess[x].gen /\ sess'[x].waiters = sess[x].waiters
        /\ sess'[x].subs = sess[x].subs /\ sess'[x].alone = b
    BY <2>1, <2>2 DEF SessType
  <2> QED BY <2>3 DEF b
<1>7. sess'[s] = new /\ sess' = [x \in Session |-> sess'[x]]
  BY DEF Opens, new
<1>8. SessOK'
  BY <1>5, <1>6, <1>7 DEF TInv, SessOK
<1>9. Exists(s)' /\ Lasting
  BY <1>5, <1>6, <1>7 DEF Exists, Lasting
<1> QED BY <1>5, <1>6, <1>7, <1>8, <1>9

LEMMA ConnectOK ==
    ASSUME TInv, ConnectGandr PROVE TInv'
<1>1. PICK c \in flight :
        \/ Fails(c, [kind |-> "session", err |-> TRUE])
        \/ \E s \in Session, kind \in Transports, subscribed \in BOOLEAN : \E d :
             sess[s].state = "none" /\ Table(d) /\ Opens(c, s, kind, d, subscribed)
  BY ConnectSteps
<1>2. UNCHANGED <<vault, gen>>
  BY ConnectSteps
<1>3. CASE Fails(c, [kind |-> "session", err |-> TRUE])
  <2>1. MessageOK([kind |-> "session", err |-> TRUE])
    BY DEF MessageOK
  <2> QED BY <1>3, <2>1, FailsOK
<1>4. ASSUME NEW s \in Session, NEW kind \in Transports, NEW subscribed \in BOOLEAN, NEW d,
             sess[s].state = "none", Table(d), Opens(c, s, kind, d, subscribed)
      PROVE  TInv'
  <2>1. SessOK' /\ Lasting /\ Exists(s)'
    BY <1>4, OpensSessions
  <2>2. DbOK' /\ VaultOK'
    BY <1>2, <1>4 DEF Opens, TInv, DbOK, VaultOK, Table
  <2>3. \A m \in {IF subscribed THEN [kind |-> "session", err |-> FALSE, s |-> s,
                                      channels |-> d.channels, groups |-> d.groups]
                  ELSE [kind |-> "session", err |-> TRUE]} : MessageOK(m)'
    BY <1>4, <2>1 DEF MessageOK, Table, DbType
  <2>4. AppOK' /\ ListsOK' /\ TalkOK' /\ FlightOK' /\ InboxOK'
    BY <1>4, <2>1, <2>3, EndsOK DEF Opens
  <2> QED BY <2>1, <2>2, <2>4 DEF TInv
<1> QED BY <1>1, <1>3, <1>4

\* The daemon's push, and the wait for it.
LEMMA PushOK ==
    ASSUME TInv, Push
    PROVE  /\ TInv'
           /\ \A x \in Session :
                /\ sess'[x].state = sess[x].state /\ sess'[x].kind = sess[x].kind
                /\ sess'[x].gen = sess[x].gen /\ sess'[x].waiters = sess[x].waiters
                /\ sess'[x].subs = sess[x].subs /\ sess'[x].alone = sess[x].alone
<1>1. PICK m \in Remote, s \in Session :
        LET to == IF sess[s].kind = "ipc"
                  THEN {x \in Session : IsOpen(x) /\ sess[x].kind = "ipc"} ELSE {s}
        IN  sess' = [x \in Session |->
                       IF x \in to /\ Wants(x, m)
                       THEN [sess[x] EXCEPT !.queue = Append(@, m)] ELSE sess[x]]
  BY DEF Push
<1>2. ASSUME NEW x \in Session
      PROVE  /\ sess'[x] \in SessType /\ Len(sess'[x].queue) <= QueueCap
             /\ sess'[x].state = sess[x].state /\ sess'[x].kind = sess[x].kind
             /\ sess'[x].gen = sess[x].gen /\ sess'[x].waiters = sess[x].waiters
             /\ sess'[x].subs = sess[x].subs /\ sess'[x].alone = sess[x].alone
  <2>1. sess[x] \in SessType /\ Len(sess[x].queue) <= QueueCap /\ sess[x].queue \in Seq(Remote)
    BY DEF TInv, SessOK, SessType
  <2>2. CASE sess'[x] = sess[x]
    BY <2>1, <2>2
  <2>3. CASE sess'[x] = [sess[x] EXCEPT !.queue = Append(sess[x].queue, m)] /\ Wants(x, m)
    <3> DEFINE q == Append(sess[x].queue, m)
    <3>1. q \in Seq(Remote) /\ Len(q) = Len(sess[x].queue) + 1
      BY <2>1
    <3>2. Len(sess[x].queue) < QueueCap /\ QueueCap \in Nat /\ Len(sess[x].queue) \in Nat
      BY <2>1, <2>3, ChatAssumption DEF Wants
    <3>3. sess'[x] = [sess[x] EXCEPT !.queue = q]
      BY <2>3
    <3>4. Len(q) <= QueueCap
      BY <3>1, <3>2
    <3> HIDE DEF q
    <3> QED BY <2>1, <3>1, <3>3, <3>4 DEF SessType
  <2> QED BY <1>1, <2>2, <2>3
<1>3. sess' = [x \in Session |-> sess'[x]]
  BY <1>1
<1>4. SessOK' /\ Lasting
  BY <1>2, <1>3 DEF TInv, SessOK, Lasting, Exists
<1>5. UNCHANGED <<vault, login, screen, chat, db, gen, flight, inbox>>
  BY DEF Push
<1>6. VaultOK' /\ AppOK' /\ TalkOK' /\ DbOK' /\ FlightOK'
  BY <1>5 DEF TInv, VaultOK, AppOK, TalkOK, Strays, DbOK, FlightOK, CommandOK, chat, shown
<1>7. ListsOK'
  BY <1>4, <1>5 DEF TInv, ListsOK, chat, Lasting
<1>8. InboxOK'
  BY <1>4, <1>5, MessageStays DEF TInv, InboxOK
<1> QED BY <1>2, <1>4, <1>6, <1>7, <1>8 DEF TInv

LEMMA WaitOK ==
    ASSUME TInv, WaitGandrIncoming
    PROVE  /\ TInv'
           /\ \A x \in Session :
                /\ sess'[x].state = sess[x].state /\ sess'[x].kind = sess[x].kind
                /\ sess'[x].gen = sess[x].gen
                /\ sess'[x].subs = sess[x].subs /\ sess'[x].alone = sess[x].alone
           /\ \E m \in inbox' : m.kind = "incoming"
<1> DEFINE Msg(s) == [kind |-> "incoming", err |-> FALSE, m |-> Head(sess[s].queue), s |-> s,
                      group |-> Decrypts(s, Head(sess[s].queue))]
<1>1. PICK s \in Session :
        /\ sess[s].waiters > 0 /\ sess[s].queue # <<>>
        /\ inbox' = inbox \cup {Msg(s)}
        /\ sess' = [sess EXCEPT ![s].waiters = @ - 1, ![s].queue = Tail(@)]
        /\ UNCHANGED <<vault, login, screen, chat, db, gen, flight>>
  BY DEF WaitGandrIncoming
<1>2. /\ sess[s] \in SessType /\ sess[s].queue \in Seq(Remote) /\ sess[s].waiters \in Nat
      /\ Len(sess[s].queue) <= QueueCap /\ QueueCap \in Nat
  BY ChatAssumption DEF TInv, SessOK, SessType
<1> DEFINE q == Tail(sess[s].queue)
           w == sess[s].waiters - 1
           r == [sess[s] EXCEPT !.waiters = w, !.queue = q]
<1>3. w \in Nat
  BY <1>1, <1>2
<1>4. q \in Seq(Remote) /\ Len(q) <= QueueCap /\ Head(sess[s].queue) \in Remote
  <2>1. q \in Seq(Remote) /\ Len(q) = Len(sess[s].queue) - 1 /\ Head(sess[s].queue) \in Remote
    BY <1>1, <1>2, HeadTailProperties
  <2>2. Len(sess[s].queue) \in Nat
    BY <1>2
  <2> QED BY <1>2, <2>1, <2>2
<1>5. sess' = [sess EXCEPT ![s] = r]
  BY <1>1 DEF TInv, SessOK
<1> HIDE DEF q, w
<1>6. /\ r \in SessType /\ r.queue = q /\ r.state = sess[s].state /\ r.kind = sess[s].kind
      /\ r.gen = sess[s].gen /\ r.subs = sess[s].subs /\ r.alone = sess[s].alone
  BY <1>2, <1>3, <1>4 DEF SessType
<1> HIDE DEF r
<1>7. \A x \in Session :
        /\ sess'[x].state = sess[x].state /\ sess'[x].kind = sess[x].kind
        /\ sess'[x].gen = sess[x].gen
        /\ sess'[x].subs = sess[x].subs /\ sess'[x].alone = sess[x].alone
  BY <1>5, <1>6 DEF TInv, SessOK
<1>8. SessOK'
  BY <1>4, <1>5, <1>6 DEF TInv, SessOK
<1>9. Lasting
  BY <1>7 DEF Lasting, Exists
<1>10. VaultOK' /\ AppOK' /\ TalkOK' /\ DbOK' /\ FlightOK'
  BY <1>1 DEF TInv, VaultOK, AppOK, TalkOK, Strays, DbOK, FlightOK, CommandOK, chat, shown
<1>11. ListsOK'
  BY <1>1, <1>9 DEF TInv, ListsOK, chat, Lasting
<1>12. /\ Msg(s).kind = "incoming" /\ Msg(s).m \in Remote
       /\ Msg(s).group => Conv[Msg(s).m] \in Group
  BY <1>4 DEF Decrypts
<1> HIDE DEF Msg
<1>13. ASSUME NEW m, m = Msg(s) PROVE MessageOK(m)'
  BY <1>12, <1>13 DEF MessageOK
<1>14. InboxOK'
  BY <1>1, <1>9, <1>13, MessageStays DEF TInv, InboxOK
<1>15. \E m \in inbox' : m.kind = "incoming"
  BY <1>1, <1>12
<1> QED BY <1>7, <1>8, <1>10, <1>11, <1>14, <1>15 DEF TInv

LEMMA RunTypes == ASSUME TInv, Run PROVE TInv'
BY ChannelCommands, GroupCommands, VaultCommands, ConnectOK, PushOK, WaitOK DEF Run

-----------------------------------------------------------------------------
(* Transcripts and their read counts.                                      *)

LEMMA NoStrays == ASSUME stray' = NoStray, lowered' \in SUBSET Group PROVE Strays'
<1>1. <<>> \in Seq(Remote) /\ Len(<<>>) = 0 /\ 0 <= MaxTalk
  BY ChatAssumption
<1> QED BY <1>1 DEF Strays, NoStray

\* The messages of transcript t up to r are seen, and a seen one after it is
\* one of M.
Exact(t, r, M) ==
    /\ r <= Len(t)
    /\ \A i \in DOMAIN t : IF i <= r THEN t[i].seen ELSE t[i].seen => t[i].m \in M

\* What the badge of c may count although it was seen.
Others(c) == IF c \in lowered THEN Message ELSE Own

LEMMA CountsIs ==
    ASSUME NEW c, Transcript(talk[c]) PROVE Counts(c) <=> Exact(talk[c], read[c], Others(c))
<1>1. \A i \in DOMAIN talk[c] : talk[c][i].m \in Message
  <2>1. talk[c] \in Seq(Entry) /\ DOMAIN talk[c] = 1..Len(talk[c])
    BY DEF Transcript
  <2>2. \A i \in 1..Len(talk[c]) : talk[c][i] \in Entry
    BY <2>1, ElementOfSeq
  <2> QED BY <2>1, <2>2 DEF Entry
<1> QED BY <1>1 DEF Counts, Exact, Others

LEMMA CountsIsNext ==
    ASSUME NEW c, Transcript(talk'[c]) PROVE Counts(c)' <=> Exact(talk'[c], read'[c], Others(c)')
<1>1. \A i \in DOMAIN talk'[c] : talk'[c][i].m \in Message
  <2>1. talk'[c] \in Seq(Entry) /\ DOMAIN talk'[c] = 1..Len(talk'[c])
    BY DEF Transcript
  <2>2. \A i \in 1..Len(talk'[c]) : talk'[c][i] \in Entry
    BY <2>1, ElementOfSeq
  <2> QED BY <2>1, <2>2 DEF Entry
<1> QED BY <1>1 DEF Counts, Exact, Others

LEMMA Fields ==
    ASSUME NEW x, NEW y, NEW a, a = [talk |-> x, read |-> y] PROVE a.talk = x /\ a.read = y
  OBVIOUS

\* A message more, and the trim: the count moves with what is left.
LEMMA TrimOK ==
    ASSUME TalkOK, NEW c \in Conversation, NEW e \in Entry, NEW a,
           a = TrimAndAdjust(c, Append(talk[c], e)), NEW M, e.seen => e.m \in M
    PROVE  /\ Transcript(a.talk) /\ a.read \in 0..MaxTalk
           /\ Exact(talk[c], read[c], M) => Exact(a.talk, a.read, M)
<1> DEFINE t == talk[c]
           r == read[c]
           u == Append(t, e)
           k == IF Len(u) > MaxTalk THEN Len(u) - MaxTalk ELSE 0
           v == Last(u, MaxTalk)
           q == IF r > k THEN r - k ELSE 0
<1>1. t \in Seq(Entry) /\ Len(t) <= MaxTalk /\ r \in 0..MaxTalk /\ MaxTalk \in Nat
  BY ChatAssumption DEF TalkOK, Strays, Transcript, shown
<1>2. a = [talk |-> v, read |-> q]
  BY DEF TrimAndAdjust
<1>3. a.talk = v /\ a.read = q
  <2> HIDE DEF v, q
  <2> QED BY <1>2, Fields
<1> HIDE DEF t, r
<1>5. /\ u \in Seq(Entry) /\ Len(u) = Len(t) + 1
      /\ \A i \in 1..Len(t) : u[i] = t[i]
      /\ u[Len(t) + 1] = e
  BY <1>1
<1>6. Len(t) \in Nat /\ DOMAIN t = 1..Len(t) /\ Len(u) \in Nat
  BY <1>1, <1>5
<1> HIDE DEF u
<1>7. /\ v \in Seq(Entry) /\ Len(v) <= MaxTalk
      /\ Len(u) <= MaxTalk => v = u
      /\ Len(u) > MaxTalk => /\ Len(v) = MaxTalk
                             /\ \A i \in 1..MaxTalk : v[i] = u[i + (Len(u) - MaxTalk)]
  BY <1>1, <1>5, LastOf
<1> HIDE DEF v
<1>8. /\ k \in Nat /\ Len(v) = Len(u) - k /\ DOMAIN v = 1..Len(v)
      /\ \A i \in 1..Len(v) : v[i] = u[i + k] /\ i + k \in 1..Len(u)
  <2>0. DOMAIN v = 1..Len(v) /\ Len(v) \in Nat
    BY <1>7
  <2>1. CASE Len(u) > MaxTalk
    <3>1. k = Len(u) - MaxTalk
      BY <2>1
    <3> HIDE DEF k
    <3> QED BY <1>1, <1>6, <1>7, <2>0, <2>1, <3>1
  <2>2. CASE Len(u) <= MaxTalk
    <3>1. k = 0
      BY <1>1, <1>6, <2>2
    <3> HIDE DEF k
    <3>2. v = u
      BY <1>7, <2>2
    <3>3. \A i \in 1..Len(v) : i + k = i
      BY <2>0, <3>1
    <3>4. Len(u) - k = Len(u)
      BY <1>6, <3>1
    <3> QED BY <2>0, <3>1, <3>2, <3>3, <3>4
  <2> QED BY <1>1, <1>6, <2>1, <2>2
<1> HIDE DEF k
<1>9. q \in 0..MaxTalk /\ q \in Nat
  BY <1>1, <1>8
<1>10. ASSUME Exact(t, r, M) PROVE Exact(v, q, M)
  <2>1. /\ r <= Len(t)
        /\ \A i \in 1..Len(t) : IF i <= r THEN t[i].seen ELSE t[i].seen => t[i].m \in M
    BY <1>6, <1>10 DEF Exact
  <2>2. q <= Len(v)
    BY <1>1, <1>5, <1>6, <1>8, <2>1
  <2>3. \A j \in 1..Len(u) : IF j <= r THEN u[j].seen ELSE u[j].seen => u[j].m \in M
    <3> SUFFICES ASSUME NEW j \in 1..Len(u)
                 PROVE  IF j <= r THEN u[j].seen ELSE u[j].seen => u[j].m \in M
      OBVIOUS
    <3>1. CASE j \in 1..Len(t)
      BY <1>5, <2>1, <3>1
    <3>2. CASE j = Len(t) + 1
      <4>1. u[j] = e
        BY <1>5, <3>2
      <4>2. ~(j <= r)
        BY <1>1, <1>6, <2>1, <3>2
      <4> QED BY <4>1, <4>2
    <3> QED BY <1>5, <1>6, <3>1, <3>2
  <2>4. ASSUME NEW i \in 1..Len(v)
        PROVE  IF i <= q THEN v[i].seen ELSE v[i].seen => v[i].m \in M
    <3>1. v[i] = u[i + k] /\ i + k \in 1..Len(u)
      BY <1>8
    <3>2. IF i + k <= r THEN v[i].seen ELSE v[i].seen => v[i].m \in M
      BY <2>3, <3>1
    <3>3. i + k <= r <=> i <= q
      BY <1>1, <1>7, <1>8
    <3> QED BY <3>2, <3>3
  <2> QED BY <1>8, <2>2, <2>4 DEF Exact
<1> HIDE DEF q
<1> QED BY <1>3, <1>7, <1>9, <1>10 DEF Transcript, t, r

\* A message that comes is an entry that was not seen, and one that the user
\* sends an entry that was.
LEMMA EntryOf ==
    ASSUME NEW c, NEW m \in Message
    PROVE  /\ Appended(c, m, FALSE) = Append(talk[c], [m |-> m, seen |-> FALSE])
           /\ [m |-> m, seen |-> FALSE] \in Entry /\ ~[m |-> m, seen |-> FALSE].seen
           /\ Appended(c, m, TRUE) = Append(talk[c], [m |-> m, seen |-> TRUE])
           /\ [m |-> m, seen |-> TRUE] \in Entry /\ [m |-> m, seen |-> TRUE].m = m
  BY DEF Appended, Entry

\* Marking read.
LEMMA SeenOK ==
    ASSUME NEW t, Transcript(t), NEW M
    PROVE  Transcript(Seen(t)) /\ Exact(Seen(t), Len(t), M) /\ Len(t) \in 0..MaxTalk
<1>1. t \in Seq(Entry) /\ DOMAIN t = 1..Len(t) /\ Len(t) \in Nat /\ MaxTalk \in Nat /\ Len(t) <= MaxTalk
  BY ChatAssumption DEF Transcript
<1>2. ASSUME NEW i \in 1..Len(t) PROVE [t[i] EXCEPT !.seen = TRUE] \in Entry /\ [t[i] EXCEPT !.seen = TRUE].seen
  <2>1. t[i] \in Entry
    BY <1>1
  <2> QED BY <2>1 DEF Entry
<1>3. Seen(t) = [i \in 1..Len(t) |-> [t[i] EXCEPT !.seen = TRUE]]
  BY <1>1 DEF Seen
<1>4. /\ Seen(t) \in Seq(Entry) /\ Len(Seen(t)) = Len(t) /\ DOMAIN Seen(t) = 1..Len(t)
      /\ \A i \in 1..Len(t) : Seen(t)[i].seen
  <2>1. Seen(t) \in [1..Len(t) -> Entry]
    BY <1>2, <1>3
  <2>2. Seen(t) \in Seq(Entry) /\ Len(Seen(t)) = Len(t) /\ DOMAIN Seen(t) = 1..Len(t)
    BY <1>1, <2>1
  <2>3. \A i \in 1..Len(t) : Seen(t)[i] = [t[i] EXCEPT !.seen = TRUE]
    BY <1>3
  <2> QED BY <1>2, <2>2, <2>3
<1>5. Len(t) <= Len(Seen(t)) /\ \A i \in 1..Len(t) : i <= Len(t)
  BY <1>1, <1>4
<1> QED BY <1>1, <1>4, <1>5 DEF Transcript, Exact

LEMMA ShowsOK ==
    ASSUME TalkOK, NEW c \in Conversation, NEW t, Transcript(t), NEW r \in 0..MaxTalk,
           NEW b \in BOOLEAN, Shows(c, t, r, b)
    PROVE  /\ TalkOK'
           /\ \A e \in Conversation : e # c /\ Counts(e) => Counts(e)'
           /\ b \/ Exact(t, r, Others(c)) => Counts(c)'
<1> DEFINE u == IF b THEN Seen(t) ELSE t
           n == IF b THEN Len(t) ELSE r
           l == IF b THEN lowered \ {c} ELSE lowered
           M == IF c \in l THEN Message ELSE Own
<1>1. Transcript(u) /\ n \in 0..MaxTalk /\ (b \/ Exact(t, r, Others(c)) => Exact(u, n, M))
  <2>1. CASE b
    BY <2>1, SeenOK
  <2>2. CASE ~b
    BY <2>2 DEF Others
  <2> QED BY <2>1, <2>2
<1>2. /\ talk' = [talk EXCEPT ![c] = u] /\ read' = [read EXCEPT ![c] = n]
      /\ lowered' = l /\ stray' = stray
  BY DEF Shows
<1>3. l \in SUBSET Group /\ (\A e : e # c => (e \in l <=> e \in lowered)) /\ M = Others(c)'
  BY <1>2 DEF TalkOK, Strays, Others
<1> HIDE DEF u, n, l, M
<1>4. /\ talk' = [e \in Conversation |-> talk'[e]] /\ talk'[c] = u
      /\ \A e \in Conversation : e # c => talk'[e] = talk[e]
  BY <1>2 DEF TalkOK
<1>5. /\ read' \in [Conversation -> 0..MaxTalk] /\ read'[c] = n
      /\ \A e \in Conversation : e # c => read'[e] = read[e]
  BY <1>1, <1>2 DEF TalkOK
<1>6. \A e \in Conversation : Transcript(talk'[e])
  BY <1>1, <1>4 DEF TalkOK
<1>7. TalkOK'
  BY <1>2, <1>3, <1>4, <1>5, <1>6 DEF TalkOK, Strays, Transcript
<1>8. ASSUME NEW e \in Conversation, e # c, Counts(e) PROVE Counts(e)'
  BY <1>2, <1>3, <1>4, <1>5, <1>8 DEF Counts
<1>9. b \/ Exact(t, r, Others(c)) => Counts(c)'
  BY <1>1, <1>3, <1>4, <1>5, <1>6, CountsIsNext
<1> QED BY <1>7, <1>8, <1>9

-----------------------------------------------------------------------------
(* Types survive every message that Update takes.                          *)

LEMMA TakesOK ==
    ASSUME TInv, Lasting, NEW m, NEW started, Takes(m, started), \A c \in started : CommandOK(c)
    PROVE  VaultOK' /\ FlightOK' /\ InboxOK'
<1>1. VaultOK'
  BY DEF Takes, TInv, VaultOK
<1>2. FlightOK'
  BY DEF Takes, Starts, TInv, FlightOK, CommandOK
<1>3. InboxOK'
  BY MessageStays DEF Takes, TInv, InboxOK
<1> QED BY <1>1, <1>2, <1>3

\* The sessions x are those of the state but for the number of waits, which
\* only grows.
Waited(x) ==
    /\ x \in [Session -> SessType]
    /\ \A t \in Session :
        /\ x[t].state = sess[t].state /\ x[t].kind = sess[t].kind /\ x[t].gen = sess[t].gen
        /\ x[t].queue = sess[t].queue /\ x[t].subs = sess[t].subs /\ x[t].alone = sess[t].alone
        /\ x[t].waiters >= sess[t].waiters

LEMMA WaitMore ==
    ASSUME SessOK, NEW s \in Session
    PROVE  /\ Waited([sess EXCEPT ![s].waiters = @ + 1])
           /\ [sess EXCEPT ![s].waiters = @ + 1][s].waiters > 0
           /\ Waited(sess)
<1> DEFINE w == sess[s].waiters + 1
           r == [sess[s] EXCEPT !.waiters = w]
<1>1. \A t \in Session : sess[t] \in SessType /\ sess[t].waiters \in Nat
  BY DEF SessOK, SessType
<1>2. w \in Nat /\ w > 0 /\ w >= sess[s].waiters /\ \A t \in Session : sess[t].waiters >= sess[t].waiters
  BY <1>1
<1>3. [sess EXCEPT ![s].waiters = @ + 1] = [sess EXCEPT ![s] = r]
  OBVIOUS
<1> HIDE DEF w
<1>4. /\ r \in SessType /\ r.state = sess[s].state /\ r.kind = sess[s].kind /\ r.gen = sess[s].gen
      /\ r.queue = sess[s].queue /\ r.subs = sess[s].subs /\ r.alone = sess[s].alone
      /\ r.waiters = w
  BY <1>1, <1>2 DEF SessType
<1> HIDE DEF r
<1>5. Waited([sess EXCEPT ![s] = r]) /\ [sess EXCEPT ![s] = r][s].waiters > 0
  BY <1>1, <1>2, <1>4 DEF SessOK, Waited
<1>6. Waited(sess)
  BY <1>2 DEF SessOK, Waited
<1> QED BY <1>3, <1>5, <1>6

LEMMA WaitedOK ==
    ASSUME SessOK, Waited(sess') PROVE SessOK' /\ Lasting
  BY DEF SessOK, Waited, Lasting, Exists

LEMMA RearmedOK ==
    ASSUME SessOK, cur \in Session \cup {0}
    PROVE  /\ Waited(Rearmed(sess))
           /\ cur # 0 /\ sess[cur].kind # "offline" => Rearmed(sess)[cur].waiters > 0
<1>1. CASE cur = 0 \/ sess[cur].kind = "offline"
  <2>1. Rearmed(sess) = sess
    BY <1>1 DEF Rearmed
  <2>2. Waited(sess)
    BY DEF SessOK, SessType, Waited
  <2> QED BY <1>1, <2>1, <2>2
<1>2. CASE ~(cur = 0 \/ sess[cur].kind = "offline")
  <2>1. Rearmed(sess) = [sess EXCEPT ![cur].waiters = @ + 1] /\ cur \in Session
    BY <1>2 DEF Rearmed
  <2> QED BY <2>1, WaitMore
<1> QED BY <1>1, <1>2

\* An unreadable message of g, among those that are already held or not.
Strayed(g, m) ==
    LET after == TrimAndAdjust(g, Append(stray[g], m))
    IN  /\ IF m \in Elems(stray[g]) THEN UNCHANGED <<stray, read, lowered>>
           ELSE /\ stray' = [stray EXCEPT ![g] = after.talk]
                /\ read' = [read EXCEPT ![g] = after.read]
                /\ lowered' = IF after.read < read[g] THEN lowered \cup {g} ELSE lowered
        /\ UNCHANGED talk

LEMMA StrayedOK ==
    ASSUME TalkOK, NEW g \in Group, NEW m \in Remote, Strayed(g, m)
    PROVE  /\ TalkOK'
           /\ \A c \in Conversation : Counts(c) => Counts(c)'
<1>1. CASE UNCHANGED <<stray, read, lowered>>
  <2>1. UNCHANGED <<talk, read, stray, lowered>>
    BY <1>1 DEF Strayed
  <2> QED BY <2>1 DEF TalkOK, Strays, Transcript, Counts
<1>2. CASE m \notin Elems(stray[g])
  <2> DEFINE t == Append(stray[g], m)
             k == IF Len(t) > MaxTalk THEN Len(t) - MaxTalk ELSE 0
             v == Last(t, MaxTalk)
             q == IF read[g] > k THEN read[g] - k ELSE 0
             l == IF q < read[g] THEN lowered \cup {g} ELSE lowered
  <2>1. PICK a : a = TrimAndAdjust(g, t)
    OBVIOUS
  <2>2. a.talk = v /\ a.read = q
    <3>1. a = [talk |-> v, read |-> q]
      BY <2>1 DEF TrimAndAdjust
    <3> HIDE DEF v, q
    <3> QED BY <3>1, Fields
  <2>3. /\ stray' = [stray EXCEPT ![g] = v] /\ read' = [read EXCEPT ![g] = q]
        /\ lowered' = l /\ talk' = talk
    <3>1. /\ stray' = [stray EXCEPT ![g] = a.talk] /\ read' = [read EXCEPT ![g] = a.read]
          /\ lowered' = IF a.read < read[g] THEN lowered \cup {g} ELSE lowered
          /\ talk' = talk
      BY <1>2, <2>1 DEF Strayed
    <3> HIDE DEF v, q
    <3> QED BY <2>2, <3>1
  <2>4. stray[g] \in Seq(Remote) /\ MaxTalk \in Nat /\ g \in Conversation
    BY ChatAssumption DEF TalkOK, Strays, Conversation
  <2>5. t \in Seq(Remote) /\ Len(t) \in Nat /\ read[g] \in 0..MaxTalk
    BY <2>4 DEF TalkOK
  <2> HIDE DEF t
  <2>6. v \in Seq(Remote) /\ Len(v) <= MaxTalk
    BY <2>4, <2>5, LastOf
  <2> HIDE DEF v
  <2>7. k \in Nat
    BY <2>4, <2>5
  <2> HIDE DEF k
  <2>8. q \in 0..MaxTalk /\ q <= read[g] /\ (q < read[g] \/ q = read[g])
    BY <2>4, <2>5, <2>7
  <2> HIDE DEF q
  <2>9. l \in SUBSET Group /\ lowered \subseteq l /\ (q < read[g] => g \in l)
    BY DEF TalkOK, Strays
  <2> HIDE DEF l
  <2>10. /\ stray' \in [Group -> Seq(Remote)] /\ \A x \in Group : Len(stray'[x]) <= MaxTalk
    BY <2>3, <2>6 DEF TalkOK, Strays
  <2>11. /\ read' \in [Conversation -> 0..MaxTalk] /\ read'[g] = q
         /\ \A c \in Conversation : c # g => read'[c] = read[c]
    BY <2>3, <2>4, <2>8 DEF TalkOK
  <2>12. TalkOK'
    BY <2>3, <2>9, <2>10, <2>11 DEF TalkOK, Strays, Transcript
  <2>13. ASSUME NEW c \in Conversation, c # g, Counts(c) PROVE Counts(c)'
    BY <2>3, <2>9, <2>11, <2>13 DEF Counts
  <2>14. ASSUME Counts(g) PROVE Counts(g)'
    <3>1. talk[g] \in Seq(Entry) /\ Len(talk[g]) \in Nat /\ DOMAIN talk[g] \subseteq Nat
      BY <2>4 DEF TalkOK, Transcript
    <3>2. q <= Len(talk[g])
      BY <2>5, <2>8, <2>14, <3>1 DEF Counts
    <3>3. CASE q = read[g]
      BY <2>3, <2>9, <2>11, <2>14, <3>3 DEF Counts
    <3>4. CASE q < read[g]
      <4>1. ASSUME NEW i \in DOMAIN talk[g], i <= q PROVE talk[g][i].seen
        <5>1. i <= read[g]
          BY <2>5, <2>8, <3>1, <4>1
        <5> QED BY <2>14, <5>1 DEF Counts
      <4> QED BY <2>3, <2>9, <2>11, <3>2, <3>4, <4>1 DEF Counts
    <3> QED BY <2>8, <3>3, <3>4
  <2> QED BY <2>12, <2>13, <2>14
<1> QED BY <1>1, <1>2 DEF Strayed

\* A message that came leaves the lists, and rearms the wait.
LEMMA IncomingOK ==
    ASSUME TInv, NEW m \in inbox, m.kind = "incoming", NEW b \in BOOLEAN,
           LET c == Conv[m.m]
               a == TrimAndAdjust(c, Appended(c, m.m, FALSE))
           IN  /\ \/ Shows(c, a.talk, a.read, b)
                  \/ Shows(c, talk[c], read[c], b)
                  \/ c \in Group /\ Strayed(c, m.m)
               /\ \/ db' = db
                  \/ c \in Channel /\ db' = SaveMessage(cur, c, m.m)
                  \/ c \in Group /\ db' = SaveReceivedPrivateGroupMessage(cur, c, m.m),
           sess' = Rearmed(sess), Takes(m, {}), UNCHANGED <<login, screen, cur, channels, groups>>
    PROVE  /\ TInv'
           /\ \A x \in Gen : db'[x].channels = db[x].channels
           /\ (\A c \in Conversation : Counts(c)) => \A c \in Conversation : Counts(c)'
<1> DEFINE c == Conv[m.m]
<1>1. m.m \in Remote /\ m.m \in Message
  BY DEF TInv, InboxOK, MessageOK, Message
<1>2. c \in Conversation
  BY <1>1, ChatAssumption DEF Conversation
<1>3. PICK a : a = TrimAndAdjust(c, Appended(c, m.m, FALSE))
  OBVIOUS
<1>4. /\ \/ Shows(c, a.talk, a.read, b)
         \/ Shows(c, talk[c], read[c], b)
         \/ c \in Group /\ Strayed(c, m.m)
      /\ \/ db' = db
         \/ c \in Channel /\ db' = SaveMessage(cur, c, m.m)
         \/ c \in Group /\ db' = SaveReceivedPrivateGroupMessage(cur, c, m.m)
  BY <1>3
<1> HIDE DEF c
<1>5. TalkOK /\ SessOK /\ DbOK /\ cur \in Session \cup {0}
  BY DEF TInv, ListsOK
<1>6. /\ Transcript(a.talk) /\ a.read \in 0..MaxTalk
      /\ Exact(talk[c], read[c], Others(c)) => Exact(a.talk, a.read, Others(c))
  BY <1>1, <1>2, <1>3, <1>5, EntryOf, TrimOK
<1>7. Transcript(talk[c]) /\ read[c] \in 0..MaxTalk
  BY <1>2, <1>5 DEF TalkOK
<1>8. /\ TalkOK'
      /\ (\A e \in Conversation : Counts(e)) => \A e \in Conversation : Counts(e)'
  <2>0. Counts(c) <=> Exact(talk[c], read[c], Others(c))
    BY <1>7, CountsIs
  <2>1. CASE Shows(c, a.talk, a.read, b)
    <3>1. /\ TalkOK'
          /\ \A e \in Conversation : e # c /\ Counts(e) => Counts(e)'
          /\ b \/ Exact(a.talk, a.read, Others(c)) => Counts(c)'
      BY <1>2, <1>5, <1>6, <2>1, ShowsOK
    <3> QED BY <1>2, <1>6, <2>0, <3>1
  <2>2. CASE Shows(c, talk[c], read[c], b)
    <3>1. /\ TalkOK'
          /\ \A e \in Conversation : e # c /\ Counts(e) => Counts(e)'
          /\ b \/ Exact(talk[c], read[c], Others(c)) => Counts(c)'
      BY <1>2, <1>5, <1>7, <2>2, ShowsOK
    <3> QED BY <1>2, <2>0, <3>1
  <2>3. CASE c \in Group /\ Strayed(c, m.m)
    BY <1>1, <1>5, <2>3, StrayedOK
  <2> QED BY <1>4, <2>1, <2>2, <2>3
<1>9. SessOK' /\ Lasting
  BY <1>5, RearmedOK, WaitedOK
<1>10. DbOK' /\ \A x \in Gen : db'[x].channels = db[x].channels
  <2>1. ASSUME NEW d, Table(d), cur \in Session, d.channels = Data(cur).channels, db' = Stored(cur, d)
        PROVE  DbOK' /\ \A x \in Gen : db'[x].channels = db[x].channels
    <3>1. DbOK' /\ \A x \in Gen : db'[x] = IF x = sess[cur].gen THEN d ELSE db[x]
      BY <1>5, <2>1, StoredOK
    <3> QED BY <2>1, <3>1 DEF Data
  <2>2. CASE db' = db
    BY <1>5, <2>2 DEF DbOK
  <2>3. CASE c \in Channel /\ cur # 0 /\ db' = Stored(cur, SaveChatMessage(Data(cur), c, m.m))
    <3>1. cur \in Session
      BY <1>5, <2>3
    <3> QED BY <1>1, <1>5, <2>1, <2>3, <3>1, DataOK, ChatTable
  <2>4. CASE /\ c \in Group /\ cur # 0
             /\ db' = Stored(cur, SavePrivateGroupMessage(Data(cur), c, m.m, sess[cur].keys[c]))
    <3>1. cur \in Session
      BY <1>5, <2>4
    <3>2. sess[cur].keys[c] \in GroupKey
      BY <1>5, <2>4, <3>1 DEF SessOK, SessType
    <3> QED BY <1>1, <1>5, <2>1, <2>4, <3>1, <3>2, DataOK, GroupTable
  <2> QED BY <1>4, <2>2, <2>3, <2>4 DEF SaveMessage, SaveReceivedPrivateGroupMessage, IsOpen
<1>11. VaultOK' /\ FlightOK' /\ InboxOK'
  BY <1>9, TakesOK
<1>12. AppOK' /\ ListsOK'
  BY <1>9 DEF TInv, AppOK, ListsOK, Lasting
<1> QED BY <1>8, <1>9, <1>10, <1>11, <1>12 DEF TInv

\* The three handlers of messages that came.
LEMMA ApplyIncomings ==
    ASSUME TInv, ApplyIncoming \/ ApplyUnreadable \/ ApplyGroupIncoming
    PROVE  /\ TInv' /\ (UnreadCounted => UnreadCounted')
           /\ \A x \in Gen : db'[x].channels = db[x].channels
           /\ sess' = Rearmed(sess) /\ UNCHANGED <<cur, flight>>
<1> DEFINE Done == /\ TInv' /\ (UnreadCounted => UnreadCounted')
                   /\ \A x \in Gen : db'[x].channels = db[x].channels
                   /\ sess' = Rearmed(sess) /\ UNCHANGED <<cur, flight>>
           Comes(m, b) ==
             LET c == Conv[m.m]
                 a == TrimAndAdjust(c, Appended(c, m.m, FALSE))
             IN  /\ \/ Shows(c, a.talk, a.read, b)
                    \/ Shows(c, talk[c], read[c], b)
                    \/ c \in Group /\ Strayed(c, m.m)
                 /\ \/ db' = db
                    \/ c \in Channel /\ db' = SaveMessage(cur, c, m.m)
                    \/ c \in Group /\ db' = SaveReceivedPrivateGroupMessage(cur, c, m.m)
<1>1. ASSUME NEW m \in inbox, m.kind = "incoming", NEW b \in BOOLEAN, Comes(m, b),
             sess' = Rearmed(sess), Takes(m, {}), UNCHANGED <<login, screen, cur, channels, groups>>
      PROVE  Done
  <2>1. /\ TInv'
        /\ \A x \in Gen : db'[x].channels = db[x].channels
        /\ (\A c \in Conversation : Counts(c)) => \A c \in Conversation : Counts(c)'
    BY <1>1, IncomingOK
  <2>2. UNCHANGED flight
    BY <1>1 DEF Takes, Starts
  <2>3. UnreadCounted => UnreadCounted'
    BY <1>1, <2>1, Zenon DEF UnreadCounted
  <2> QED BY <1>1, <2>1, <2>2, <2>3
<1>2. CASE ApplyIncoming
  <2>1. PICK m \in inbox :
          /\ m.kind = "incoming" /\ Conv[m.m] \in Channel
          /\ LET c == Conv[m.m]
                 after == IF Known(c, m.m) THEN [talk |-> talk[c], read |-> read[c]]
                          ELSE TrimAndAdjust(c, Appended(c, m.m, FALSE))
             IN  Shows(c, after.talk, after.read, OnScreen(c))
          /\ db' = SaveMessage(cur, Conv[m.m], m.m)
          /\ sess' = Rearmed(sess) /\ Takes(m, {}) /\ UNCHANGED <<login, screen, cur, channels, groups>>
    BY <1>2 DEF ApplyIncoming
  <2> DEFINE b == OnScreen(Conv[m.m])
             c == Conv[m.m]
  <2>2. b \in BOOLEAN
    BY DEF OnScreen
  <2>3. [talk |-> talk[c], read |-> read[c]].talk = talk[c] /\ [talk |-> talk[c], read |-> read[c]].read = read[c]
    BY Fields
  <2>4. Comes(m, b)
    BY <2>1, <2>3
  <2> HIDE DEF b, Comes
  <2> QED BY <1>1, <2>1, <2>2, <2>4
<1>3. CASE ApplyUnreadable
  <2>1. PICK m \in inbox :
          /\ m.kind = "incoming" /\ Conv[m.m] \in Group /\ Strayed(Conv[m.m], m.m)
          /\ UNCHANGED <<login, screen, cur, channels, groups, db>>
          /\ sess' = Rearmed(sess) /\ Takes(m, {})
    BY <1>3 DEF ApplyUnreadable, Strayed
  <2>2. Comes(m, TRUE)
    BY <2>1
  <2> HIDE DEF Comes
  <2> QED BY <1>1, <2>1, <2>2
<1>4. CASE ApplyGroupIncoming
  <2>1. PICK m \in inbox :
          /\ m.kind = "incoming" /\ m.group
          /\ LET g == Conv[m.m]
                 after == TrimAndAdjust(g, Appended(g, m.m, FALSE))
             IN  Shows(g, after.talk, after.read, OnScreen(g))
          /\ db' = SaveReceivedPrivateGroupMessage(cur, Conv[m.m], m.m)
          /\ sess' = Rearmed(sess) /\ Takes(m, {}) /\ UNCHANGED <<login, screen, cur, channels, groups>>
    BY <1>4 DEF ApplyGroupIncoming
  <2> DEFINE b == OnScreen(Conv[m.m])
  <2>2. b \in BOOLEAN
    BY DEF OnScreen
  <2>3. Conv[m.m] \in Group
    BY <2>1 DEF TInv, InboxOK, MessageOK
  <2>4. Comes(m, b)
    BY <2>1, <2>3
  <2> HIDE DEF b, Comes
  <2> QED BY <1>1, <2>1, <2>2, <2>4
<1> QED BY <1>2, <1>3, <1>4

\* The transcripts of a new session are its history, which counts as read.
LEMMA ApplySessionOK ==
    ASSUME TInv, ApplySession
    PROVE  /\ TInv' /\ (UnreadCounted => UnreadCounted')
           /\ UNCHANGED <<db, flight>> /\ Waited(sess')
           /\ cur' = cur \/ (cur' # 0 /\ (sess'[cur'].kind # "offline" => sess'[cur'].waiters > 0))
           /\ \A m \in inbox : m.kind = "incoming" => m \in inbox'
<1>1. PICK m \in inbox :
        /\ m.kind = "session"
        /\ IF m.err
           THEN UNCHANGED <<screen, chat, sess>>
           ELSE LET history(c) == IF c \in Elems(m.channels)
                                  THEN ListChatMessages(Data(m.s), c) ELSE <<>>
                IN
                /\ cur' = m.s /\ channels' = m.channels /\ groups' = m.groups
                /\ screen' = [screen EXCEPT !.active = NoGroup]
                /\ talk' = [c \in Conversation |-> IF c \in Group THEN <<>> ELSE
                        [i \in DOMAIN history(c) |-> [m |-> history(c)[i].m, seen |-> TRUE]]]
                /\ read' = [c \in Conversation |-> Len(talk'[c])]
                /\ stray' = NoStray /\ lowered' = {}
                /\ sess' = IF sess[m.s].kind = "offline" THEN sess
                           ELSE [sess EXCEPT ![m.s].waiters = @ + 1]
        /\ Takes(m, {})
        /\ UNCHANGED <<login, db>>
  BY DEF ApplySession
<1>2. DbOK' /\ UNCHANGED flight /\ \A e \in inbox : e.kind = "incoming" => e \in inbox'
  BY <1>1 DEF TInv, DbOK, Takes, Starts
<1>3. SessOK /\ DbOK /\ MaxTalk \in Nat /\ HistoryLimit \in Nat /\ HistoryLimit <= MaxTalk
  BY ChatAssumption DEF TInv
<1>4. CASE m.err
  <2>1. UNCHANGED <<login, screen, cur, channels, groups, shown, sess>>
    BY <1>1, <1>4 DEF chat
  <2>2. Waited(sess') /\ Lasting /\ SessOK'
    BY <1>3, <2>1 DEF SessOK, SessType, Waited, Lasting, Exists
  <2>3. VaultOK' /\ FlightOK' /\ InboxOK'
    BY <1>1, <2>2, TakesOK
  <2>4. AppOK' /\ ListsOK' /\ TalkOK'
    BY <2>1 DEF TInv, AppOK, ListsOK, TalkOK, Strays, Transcript, shown, Exists
  <2>5. UnreadCounted => UnreadCounted'
    BY <2>1 DEF UnreadCounted, Counts, shown
  <2> QED BY <1>1, <1>2, <2>1, <2>2, <2>3, <2>4, <2>5 DEF TInv
<1>5. CASE ~m.err
  <2> DEFINE history(c) == IF c \in Elems(m.channels)
                           THEN ListChatMessages(Data(m.s), c) ELSE <<>>
             H(c) == IF c \in Group THEN <<>> ELSE
                        [i \in DOMAIN history(c) |-> [m |-> history(c)[i].m, seen |-> TRUE]]
  <2>1. /\ cur' = m.s /\ channels' = m.channels /\ groups' = m.groups
        /\ screen' = [screen EXCEPT !.active = NoGroup]
        /\ talk' = [c \in Conversation |-> H(c)]
        /\ read' = [c \in Conversation |-> Len(talk'[c])]
        /\ stray' = NoStray /\ lowered' = {}
        /\ sess' = IF sess[m.s].kind = "offline" THEN sess
                   ELSE [sess EXCEPT ![m.s].waiters = @ + 1]
    BY <1>1, <1>5
  <2>2. Exists(m.s) /\ m.channels \in Seq(Channel) /\ m.groups \in SUBSET Group
    BY <1>1, <1>5 DEF TInv, InboxOK, MessageOK
  <2>3. m.s \in Session /\ m.s # 0
    BY <2>2 DEF Exists, Session
  <2>4. ASSUME NEW c \in Conversation
        PROVE  /\ H(c) \in Seq(Entry) /\ Len(H(c)) <= MaxTalk /\ Len(H(c)) \in 0..MaxTalk
               /\ Exact(H(c), Len(H(c)), Own)
    <3>1. CASE c \in Group
      <4>1. H(c) = <<>> /\ <<>> \in Seq(Entry) /\ Len(<<>>) = 0 /\ DOMAIN <<>> = {}
        BY <3>1
      <4> HIDE DEF H
      <4> QED BY <1>3, <4>1 DEF Exact
    <3>2. CASE c \notin Group
      <4> DEFINE h == history(c)
      <4>1. h \in Seq([m : Message]) /\ Len(h) <= HistoryLimit
        <5>1. Data(m.s).chat[c] \in Seq([m : Message])
          BY <1>3, <2>3, <3>2, DataOK DEF Table, DbType, Conversation
        <5>2. CASE h = Last(Data(m.s).chat[c], HistoryLimit)
          BY <1>3, <5>1, <5>2, LastOf
        <5>3. CASE h = <<>>
          <6>1. <<>> \in Seq([m : Message]) /\ Len(<<>>) = 0
            OBVIOUS
          <6> HIDE DEF h
          <6> QED BY <1>3, <5>3, <6>1
        <5> QED BY <5>2, <5>3 DEF ListChatMessages
      <4>2. H(c) = [i \in DOMAIN h |-> [m |-> h[i].m, seen |-> TRUE]]
        BY <3>2
      <4> HIDE DEF h, H
      <4>3. DOMAIN h = 1..Len(h) /\ Len(h) \in Nat
        BY <4>1
      <4>4. ASSUME NEW i \in 1..Len(h) PROVE [m |-> h[i].m, seen |-> TRUE] \in Entry
        <5>1. h[i] \in [m : Message]
          BY <4>1, ElementOfSeq
        <5>2. h[i].m \in Message
          BY <5>1
        <5> QED BY <5>2 DEF Entry
      <4>5. H(c) \in [1..Len(h) -> Entry] /\ \A i \in 1..Len(h) : H(c)[i].seen
        BY <4>2, <4>3, <4>4
      <4>6. H(c) \in Seq(Entry) /\ Len(H(c)) = Len(h) /\ DOMAIN H(c) = 1..Len(h)
        BY <4>3, <4>5
      <4>7. Len(h) <= MaxTalk /\ Len(h) \in 0..MaxTalk /\ Len(h) <= Len(h) /\ \A i \in 1..Len(h) : i <= Len(h)
        BY <1>3, <4>1, <4>3
      <4> QED BY <4>5, <4>6, <4>7 DEF Exact
    <3> QED BY <3>1, <3>2
  <2> HIDE DEF H
  <2>5. \A c \in Conversation : talk'[c] = H(c) /\ read'[c] = Len(H(c))
    BY <2>1
  <2>6. TalkOK'
    <3>1. talk' = [c \in Conversation |-> talk'[c]]
      BY <2>1
    <3>2. read' \in [Conversation -> 0..MaxTalk]
      BY <2>1, <2>4, <2>5
    <3>3. \A c \in Conversation : talk'[c] \in Seq(Entry) /\ Len(talk'[c]) <= MaxTalk
      BY <2>4, <2>5
    <3>4. Strays'
      BY <2>1, NoStrays
    <3> QED BY <3>1, <3>2, <3>3, <3>4 DEF TalkOK, Transcript
  <2>7. UnreadCounted'
    <3>1. \A c \in Conversation : Exact(talk'[c], read'[c], Own)
      BY <2>4, <2>5
    <3> QED BY <3>1 DEF UnreadCounted, Counts, Exact
  <2>8. Waited(sess') /\ (sess'[m.s].kind # "offline" => sess'[m.s].waiters > 0)
    <3>1. CASE sess[m.s].kind = "offline"
      <4>1. sess' = sess
        BY <2>1, <3>1
      <4> QED BY <1>3, <2>3, <3>1, <4>1, WaitMore
    <3>2. CASE sess[m.s].kind # "offline"
      <4>1. sess' = [sess EXCEPT ![m.s].waiters = @ + 1]
        BY <2>1, <3>2
      <4> QED BY <1>3, <2>3, <4>1, WaitMore
    <3> QED BY <3>1, <3>2
  <2>9. SessOK' /\ Lasting
    BY <1>3, <2>8, WaitedOK
  <2>10. VaultOK' /\ FlightOK' /\ InboxOK'
    BY <1>1, <2>9, TakesOK
  <2>11. AppOK'
    BY <1>1, <2>1 DEF TInv, AppOK, ScreenType
  <2>12. ListsOK'
    <3>1. Exists(m.s)'
      BY <2>2, <2>3, <2>8 DEF Exists, Waited
    <3> QED BY <2>1, <2>2, <2>3, <3>1 DEF ListsOK, Exists
  <2> QED BY <1>1, <1>2, <2>1, <2>3, <2>6, <2>7, <2>8, <2>9, <2>10, <2>11, <2>12 DEF TInv
<1> QED BY <1>4, <1>5

\* The other messages touch the screen, the lists and the group they open.
LEMMA OtherMessages ==
    ASSUME TInv,
           ApplyVault \/ PauseEnds \/ ApplyGroup \/ ApplyChannels \/ ApplyContact \/ ApplyDelete
    PROVE  /\ TInv' /\ (UnreadCounted => UnreadCounted')
           /\ UNCHANGED <<cur, sess, db>> /\ flight \subseteq flight'
           /\ \A m \in inbox : m.kind = "incoming" => m \in inbox'
<1> DEFINE Rest == /\ UNCHANGED <<cur, sess, db>> /\ flight \subseteq flight'
                   /\ \A m \in inbox : m.kind = "incoming" => m \in inbox'
           Still == UNCHANGED <<cur, channels, groups, shown>>
<1>1. ASSUME UNCHANGED <<sess, db>> PROVE SessOK' /\ DbOK' /\ Lasting
  BY <1>1 DEF TInv, SessOK, DbOK, Lasting, Exists
<1>2. ASSUME UNCHANGED <<sess, db>>, Still
      PROVE  SessOK' /\ DbOK' /\ ListsOK' /\ TalkOK' /\ (UnreadCounted => UnreadCounted')
  <2>1. SessOK' /\ DbOK' /\ Lasting
    BY <1>1, <1>2
  <2>2. ListsOK' /\ TalkOK'
    BY <1>2, <2>1 DEF TInv, ListsOK, TalkOK, Strays, Transcript, shown, Lasting
  <2> QED BY <1>2, <2>1, <2>2 DEF UnreadCounted, Counts, shown
<1>3. ASSUME NEW m, NEW started, Takes(m, started), m.kind # "incoming", UNCHANGED <<cur, sess, db>>,
             \A c \in started : CommandOK(c)
      PROVE  VaultOK' /\ FlightOK' /\ InboxOK' /\ Rest
  <2>1. VaultOK' /\ FlightOK' /\ InboxOK'
    BY <1>1, <1>3, TakesOK
  <2>2. Rest
    BY <1>3 DEF Takes, Starts
  <2> QED BY <2>1, <2>2
<1>4. login \in LoginType /\ screen \in ScreenType
  BY DEF TInv, AppOK
<1>5. CASE ApplyVault
  <2>1. PICK m \in inbox :
          LET failures == IF m.created THEN login.failures ELSE Least(login.failures + 1, 3)
          IN
          /\ m.kind = "vault"
          /\ IF m.err
             THEN /\ login' = [login EXCEPT !.failures = failures,
                                            !.paused = @ \/ failures >= 3]
                  /\ screen' = [screen EXCEPT !.focus = failures < 3 /\ (@ \/ ~m.created)]
                  /\ Takes(m, {})
             ELSE /\ login' = [login EXCEPT !.creating = FALSE, !.confirming = FALSE,
                                            !.failures = 0, !.paused = FALSE]
                  /\ Takes(m, {[op |-> "connect", n |-> m.n]})
                  /\ UNCHANGED screen
          /\ UNCHANGED <<chat, sess, db>>
    BY <1>5 DEF ApplyVault
  <2>2. Still /\ UNCHANGED <<cur, sess, db>>
    BY <2>1 DEF chat
  <2>3. \E started \in {{}, {[op |-> "connect", n |-> m.n]}} : Takes(m, started)
    BY <2>1
  <2>4. \A c \in {[op |-> "connect", n |-> m.n]} : CommandOK(c)
    BY DEF CommandOK
  <2>5. VaultOK' /\ FlightOK' /\ InboxOK' /\ Rest
    BY <1>3, <2>1, <2>2, <2>3, <2>4
  <2>6. AppOK'
    <3> DEFINE f == IF m.created THEN login.failures ELSE Least(login.failures + 1, 3)
               p == login.paused \/ f >= 3
               o == f < 3 /\ (screen.focus \/ ~m.created)
    <3>1. f \in 0..3 /\ p \in BOOLEAN /\ o \in BOOLEAN
      BY <1>4 DEF LoginType, Least
    <3>2. CASE login' = [login EXCEPT !.failures = f, !.paused = p] /\ screen' = [screen EXCEPT !.focus = o]
      <4> HIDE DEF f, p, o
      <4> QED BY <1>4, <3>1, <3>2 DEF AppOK, LoginType, ScreenType
    <3>3. CASE /\ login' = [login EXCEPT !.creating = FALSE, !.confirming = FALSE,
                                         !.failures = 0, !.paused = FALSE]
               /\ UNCHANGED screen
      <4>1. login' \in LoginType
        <5> DEFINE l == [[login EXCEPT !.creating = FALSE] EXCEPT !.confirming = FALSE]
        <5>1. l \in LoginType
          BY <1>4 DEF LoginType
        <5>2. login' = [[l EXCEPT !.failures = 0] EXCEPT !.paused = FALSE]
          BY <3>3
        <5> HIDE DEF l
        <5>3. 0 \in 0..3
          OBVIOUS
        <5> QED BY <5>1, <5>2, <5>3 DEF LoginType
      <4>2. screen' \in ScreenType
        BY <1>4, <3>3
      <4> QED BY <4>1, <4>2 DEF AppOK, LoginType, ScreenType
    <3> QED BY <2>1, <3>2, <3>3
  <2> QED BY <1>2, <2>2, <2>5, <2>6 DEF TInv
<1>6. CASE PauseEnds
  <2>1. /\ login' = [login EXCEPT !.paused = FALSE]
        /\ Still /\ UNCHANGED <<vault, screen, cur, sess, db, gen, flight, inbox>>
    BY <1>6 DEF PauseEnds, chat
  <2>2. AppOK'
    BY <1>4, <2>1 DEF AppOK, LoginType
  <2>3. VaultOK' /\ FlightOK'
    BY <2>1 DEF TInv, VaultOK, FlightOK, CommandOK
  <2>4. InboxOK'
    BY <1>1, <2>1, MessageStays DEF TInv, InboxOK
  <2> QED BY <1>2, <2>1, <2>2, <2>3, <2>4 DEF TInv
<1>7. CASE ApplyGroup
  <2>1. PICK m \in inbox :
          /\ m.kind = "group"
          /\ IF m.err
             THEN UNCHANGED <<screen, groups, shown>>
             ELSE /\ groups' = m.groups
                  /\ screen' = [screen EXCEPT !.active = m.active]
                  /\ IF m.active = NoGroup THEN UNCHANGED shown
                     ELSE Shows(m.active, IF m.loaded THEN m.talk ELSE talk[m.active], 0, TRUE)
          /\ Takes(m, {})
          /\ UNCHANGED <<login, cur, channels, sess, db>>
    BY <1>7 DEF ApplyGroup
  <2>2. VaultOK' /\ FlightOK' /\ InboxOK' /\ Rest
    BY <1>3, <2>1
  <2>3. CASE m.err
    <3>1. Still /\ UNCHANGED <<login, screen, sess, db>>
      BY <2>1, <2>3
    <3>2. AppOK'
      BY <3>1 DEF TInv, AppOK
    <3> QED BY <1>2, <2>2, <3>1, <3>2 DEF TInv
  <2>4. CASE ~m.err
    <3>1. /\ m.groups \in SUBSET Group /\ m.active \in Group \cup {NoGroup}
          /\ m.loaded => Transcript(m.talk)
      BY <2>1, <2>4 DEF TInv, InboxOK, MessageOK
    <3>2. AppOK'
      BY <1>4, <2>1, <2>4, <3>1 DEF AppOK, ScreenType
    <3>3. SessOK' /\ DbOK' /\ Lasting
      BY <1>1, <2>1
    <3>4. ListsOK'
      BY <2>1, <2>4, <3>1, <3>3 DEF TInv, ListsOK, Lasting
    <3>5. TalkOK' /\ (UnreadCounted => UnreadCounted')
      <4>1. CASE UNCHANGED shown
        BY <2>1, <4>1 DEF TInv, TalkOK, Strays, Transcript, shown, UnreadCounted, Counts
      <4>2. CASE /\ m.active # NoGroup
                 /\ Shows(m.active, IF m.loaded THEN m.talk ELSE talk[m.active], 0, TRUE)
        <5> DEFINE t == IF m.loaded THEN m.talk ELSE talk[m.active]
                   g == m.active
        <5>1. g \in Conversation /\ TalkOK /\ 0 \in 0..MaxTalk
          BY <3>1, <4>2, ChatAssumption DEF Conversation, TInv
        <5>2. Transcript(t)
          BY <3>1, <5>1 DEF TalkOK
        <5>3. Shows(g, t, 0, TRUE)
          BY <4>2
        <5> HIDE DEF t, g
        <5>4. /\ TalkOK'
              /\ \A e \in Conversation : e # g /\ Counts(e) => Counts(e)'
              /\ Counts(g)'
          BY <5>1, <5>2, <5>3, ShowsOK
        <5>5. UnreadCounted => UnreadCounted'
          BY <2>1, <5>4 DEF UnreadCounted
        <5> QED BY <5>4, <5>5
      <4> QED BY <2>1, <2>4, <4>1, <4>2
    <3> QED BY <2>2, <3>2, <3>3, <3>4, <3>5 DEF TInv
  <2> QED BY <2>3, <2>4
<1>8. CASE ApplyChannels
  <2>1. PICK m \in inbox :
          /\ m.kind = "channels"
          /\ IF m.err
             THEN UNCHANGED <<screen, channels>>
             ELSE /\ channels' = m.channels
                  /\ screen' = [screen EXCEPT !.cursor =
                          Least(@, IF m.channels = <<>> THEN 1 ELSE Len(m.channels))]
          /\ Takes(m, {})
          /\ UNCHANGED <<login, cur, groups, shown, sess, db>>
    BY <1>8 DEF ApplyChannels
  <2>2. VaultOK' /\ FlightOK' /\ InboxOK' /\ Rest
    BY <1>3, <2>1
  <2>3. CASE m.err
    <3>1. Still /\ UNCHANGED <<login, screen, sess, db>>
      BY <2>1, <2>3
    <3>2. AppOK'
      BY <3>1 DEF TInv, AppOK
    <3> QED BY <1>2, <2>2, <3>1, <3>2 DEF TInv
  <2>4. CASE ~m.err
    <3>1. m.channels \in Seq(Channel)
      BY <2>1, <2>4 DEF TInv, InboxOK, MessageOK
    <3> DEFINE n == IF m.channels = <<>> THEN 1 ELSE Len(m.channels)
               k == Least(screen.cursor, n)
    <3>2. n \in Nat \ {0}
      BY <3>1
    <3>3. screen.cursor \in Nat \ {0}
      BY <1>4 DEF ScreenType
    <3>4. k \in Nat \ {0} /\ screen' = [screen EXCEPT !.cursor = k]
      BY <2>1, <2>4, <3>2, <3>3 DEF Least
    <3> HIDE DEF k
    <3>5. AppOK'
      BY <1>4, <2>1, <3>4 DEF AppOK, ScreenType
    <3>6. SessOK' /\ DbOK' /\ Lasting
      BY <1>1, <2>1
    <3>7. ListsOK'
      BY <2>1, <2>4, <3>1, <3>6 DEF TInv, ListsOK, Lasting
    <3>8. TalkOK' /\ (UnreadCounted => UnreadCounted')
      BY <2>1 DEF TInv, TalkOK, Strays, Transcript, shown, UnreadCounted, Counts
    <3> QED BY <2>2, <3>5, <3>6, <3>7, <3>8 DEF TInv
  <2> QED BY <2>3, <2>4
<1>9. CASE ApplyContact
  <2>1. PICK m \in inbox :
          /\ m.kind = "contact"
          /\ screen' = [screen EXCEPT !.adding = @ /\ (m.err \/ m.invited \/ cur = 0)]
          /\ Takes(m, {})
          /\ UNCHANGED <<login, chat, sess, db>>
    BY <1>9 DEF ApplyContact
  <2>2. Still /\ UNCHANGED <<cur, sess, db>>
    BY <2>1 DEF chat
  <2>3. VaultOK' /\ FlightOK' /\ InboxOK' /\ Rest
    BY <1>3, <2>1, <2>2
  <2> DEFINE b == screen.adding /\ (m.err \/ m.invited \/ cur = 0)
  <2>4. b \in BOOLEAN /\ screen' = [screen EXCEPT !.adding = b]
    BY <2>1
  <2> HIDE DEF b
  <2>5. AppOK'
    BY <1>4, <2>1, <2>4 DEF AppOK, ScreenType
  <2> QED BY <1>2, <2>2, <2>3, <2>5 DEF TInv
<1>10. CASE ApplyDelete
  <2>1. PICK m \in inbox :
          /\ m.kind = "delete"
          /\ IF m.err THEN UNCHANGED <<login, screen>>
             ELSE /\ login' = IF login.recreate
                              THEN [login EXCEPT !.deleting = FALSE, !.recreate = FALSE,
                                                 !.creating = TRUE, !.confirming = FALSE]
                              ELSE [login EXCEPT !.deleting = FALSE]
                  /\ screen' = [screen EXCEPT !.focus = @ \/ login.recreate]
          /\ Takes(m, {})
          /\ UNCHANGED <<chat, sess, db>>
    BY <1>10 DEF ApplyDelete
  <2>2. Still /\ UNCHANGED <<cur, sess, db>>
    BY <2>1 DEF chat
  <2>3. VaultOK' /\ FlightOK' /\ InboxOK' /\ Rest
    BY <1>3, <2>1, <2>2
  <2> DEFINE b == screen.focus \/ login.recreate
  <2>4. b \in BOOLEAN
    OBVIOUS
  <2>5. screen' = screen \/ screen' = [screen EXCEPT !.focus = b]
    BY <2>1
  <2> HIDE DEF b
  <2>6. screen' \in ScreenType
    BY <1>4, <2>4, <2>5 DEF ScreenType
  <2>7. login' \in LoginType
    BY <1>4, <2>1 DEF LoginType
  <2>8. AppOK'
    BY <2>6, <2>7 DEF AppOK, LoginType, ScreenType
  <2> QED BY <1>2, <2>2, <2>3, <2>8 DEF TInv
<1> QED BY <1>5, <1>6, <1>7, <1>8, <1>9, <1>10

-----------------------------------------------------------------------------
(* Types survive every key.                                                *)

\* At most, the session on the screen is closed.
Closes ==
    \/ UNCHANGED <<cur, sess>>
    \/ /\ cur' = 0
       /\ \A x \in Session :
            /\ sess'[x].kind = sess[x].kind /\ sess'[x].gen = sess[x].gen
            /\ sess'[x].subs = sess[x].subs /\ sess'[x].waiters = sess[x].waiters
            /\ sess'[x].alone = sess[x].alone
            /\ sess'[x].state = sess[x].state \/ sess'[x].state = "closed"

LEMMA CloseOK ==
    ASSUME TInv, CloseSession
    PROVE  /\ SessOK' /\ Lasting /\ ListsOK' /\ TalkOK' /\ (UnreadCounted => UnreadCounted')
           /\ Closes
<1>1. CASE cur = 0
  <2>1. UNCHANGED <<cur, channels, groups, shown, sess>>
    BY <1>1 DEF CloseSession, chat
  <2>2. SessOK' /\ Lasting
    BY <2>1 DEF TInv, SessOK, Lasting, Exists
  <2>3. ListsOK' /\ TalkOK'
    BY <2>1, <2>2 DEF TInv, ListsOK, TalkOK, Strays, Transcript, shown, Lasting
  <2> QED BY <2>1, <2>2, <2>3 DEF UnreadCounted, Counts, shown, Closes
<1>2. CASE cur # 0
  <2>1. /\ sess' = [sess EXCEPT ![cur].state = "closed"]
        /\ cur' = 0 /\ channels' = <<>> /\ groups' = {} /\ talk' = NoTalk
        /\ stray' = NoStray /\ UNCHANGED <<read, lowered>>
    BY <1>2 DEF CloseSession
  <2> DEFINE r == [sess[cur] EXCEPT !.state = "closed"]
  <2>2. cur \in Session
    BY <1>2 DEF TInv, ListsOK
  <2>3. /\ r \in SessType /\ r.state = "closed" /\ r.kind = sess[cur].kind /\ r.gen = sess[cur].gen
        /\ r.queue = sess[cur].queue /\ r.subs = sess[cur].subs /\ r.waiters = sess[cur].waiters
        /\ r.alone = sess[cur].alone
    BY <2>2 DEF TInv, SessOK, SessType
  <2>4. sess' = [sess EXCEPT ![cur] = r]
    BY <2>1
  <2> HIDE DEF r
  <2>5. SessOK'
    BY <2>2, <2>3, <2>4 DEF TInv, SessOK
  <2>6. \A x \in Session :
          /\ sess'[x].kind = sess[x].kind /\ sess'[x].gen = sess[x].gen
          /\ sess'[x].subs = sess[x].subs /\ sess'[x].waiters = sess[x].waiters
          /\ sess'[x].alone = sess[x].alone
          /\ sess'[x].state = sess[x].state \/ sess'[x].state = "closed"
    BY <2>2, <2>3, <2>4 DEF TInv, SessOK
  <2>7. Lasting /\ Closes
    BY <2>1, <2>6 DEF Lasting, Exists, Closes
  <2>8. ListsOK'
    <3>1. <<>> \in Seq(Channel)
      OBVIOUS
    <3> QED BY <2>1, <3>1 DEF ListsOK
  <2>9. TalkOK'
    <3>1. <<>> \in Seq(Entry) /\ Len(<<>>) = 0 /\ 0 <= MaxTalk
      BY ChatAssumption
    <3>2. talk' = [c \in Conversation |-> <<>>]
      BY <2>1 DEF NoTalk
    <3>3. Strays'
      BY <2>1, NoStrays DEF TInv, TalkOK, Strays
    <3> QED BY <2>1, <3>1, <3>2, <3>3 DEF TInv, TalkOK, Transcript
  <2> QED BY <2>1, <2>5, <2>7, <2>8, <2>9 DEF UnreadCounted
<1> QED BY <1>1, <1>2

\* A key that keeps the session: it may show a conversation and start
\* commands.
LEMMA KeyKeeps ==
    ASSUME TInv, UNCHANGED <<vault, gen, db, sess, inbox, cur, channels, groups>>, AppOK', TalkOK',
           NEW cs, Starts(cs), \A c \in cs : CommandOK(c)
    PROVE  TInv' /\ Closes /\ UNCHANGED <<db, inbox>> /\ flight \subseteq flight'
<1>1. SessOK' /\ DbOK' /\ VaultOK' /\ Lasting
  BY DEF TInv, SessOK, DbOK, VaultOK, Lasting, Exists
<1>2. ListsOK'
  BY <1>1 DEF TInv, ListsOK, Lasting
<1>3. InboxOK'
  BY <1>1, MessageStays DEF TInv, InboxOK
<1>4. FlightOK'
  BY DEF TInv, FlightOK, Starts, CommandOK
<1>5. Closes /\ flight \subseteq flight'
  BY DEF Closes, Starts
<1> QED BY <1>1, <1>2, <1>3, <1>4, <1>5 DEF TInv

\* A key that only moves on the screen.
LEMMA PlainKeeps ==
    ASSUME TInv, Plain, UNCHANGED chat, AppOK'
    PROVE  /\ TInv' /\ Closes /\ UNCHANGED <<db, inbox>> /\ flight \subseteq flight'
           /\ UnreadCounted => UnreadCounted'
<1>1. UNCHANGED <<vault, gen, db, sess, inbox, cur, channels, groups, shown, flight>>
  BY DEF Plain, ChatOnly, chat
<1>2. TalkOK' /\ Starts({})
  BY <1>1 DEF TInv, TalkOK, Strays, Transcript, shown, Starts
<1>3. \A c \in {} : CommandOK(c)
  OBVIOUS
<1>4. UnreadCounted => UnreadCounted'
  BY <1>1 DEF UnreadCounted, Counts, shown
<1> QED BY <1>1, <1>2, <1>3, <1>4, KeyKeeps

LEMMA PlainKeys ==
    ASSUME TInv,
           \/ OpenGandr \/ LeaveView \/ BeginCreate \/ Esc \/ EnterChat \/ FocusInput
           \/ CloseGroup \/ OpenMenu \/ EnterSearch
    PROVE  /\ TInv' /\ Closes /\ UNCHANGED <<db, inbox>> /\ flight \subseteq flight'
           /\ UnreadCounted => UnreadCounted'
<1>1. Plain /\ UNCHANGED chat
  BY DEF OpenGandr, LeaveView, BeginCreate, Esc, EnterChat, FocusInput, CloseGroup, OpenMenu,
         EnterSearch
<1>2. login \in LoginType /\ screen \in ScreenType
  BY DEF TInv, AppOK
<1>3. login' \in LoginType
  <2>1. \/ UNCHANGED login
        \/ login' = [login EXCEPT !.creating = FALSE, !.confirming = FALSE]
        \/ login' = [login EXCEPT !.creating = TRUE, !.confirming = FALSE]
    BY DEF OpenGandr, LeaveView, BeginCreate, Esc, EnterChat, FocusInput, CloseGroup, OpenMenu,
           EnterSearch
  <2> QED BY <1>2, <2>1 DEF LoginType
<1>4. screen' \in ScreenType
  <2>1. 1 \in Nat \ {0}
    OBVIOUS
  <2>2. CASE OpenGandr
    <3> DEFINE b == ~login.paused /\ vault.file # 0
    <3>1. b \in BOOLEAN
      BY <1>2 DEF LoginType
    <3>2. \/ screen' = [screen EXCEPT !.view = "chat", !.cursor = 1]
          \/ screen' = [screen EXCEPT !.view = "vault", !.cursor = 1, !.focus = b]
      BY <2>2 DEF OpenGandr
    <3> HIDE DEF b
    <3> QED BY <1>2, <2>1, <3>1, <3>2 DEF ScreenType
  <2>3. CASE LeaveView \/ EnterChat
    <3>1. \E v \in {"other", "chat"} : screen' = [screen EXCEPT !.view = v, !.cursor = 1]
      BY <2>3 DEF LeaveView, EnterChat
    <3> QED BY <1>2, <2>1, <3>1 DEF ScreenType
  <2>4. CASE BeginCreate \/ Esc \/ EnterSearch
    <3>1. \E b \in BOOLEAN : screen' = [screen EXCEPT !.focus = b]
      BY <2>4 DEF BeginCreate, Esc, EnterSearch
    <3> QED BY <1>2, <3>1 DEF ScreenType
  <2>5. CASE FocusInput
    <3>1. PICK adding \in BOOLEAN :
            screen' = [screen EXCEPT !.focus = TRUE, !.adding = screen.adding \/ adding]
      BY <2>5 DEF FocusInput
    <3> DEFINE b == screen.adding \/ adding
    <3>2. b \in BOOLEAN
      OBVIOUS
    <3>3. screen' = [screen EXCEPT !.focus = TRUE, !.adding = b]
      BY <3>1
    <3> HIDE DEF b
    <3> QED BY <1>2, <3>2, <3>3 DEF ScreenType
  <2>6. CASE CloseGroup
    BY <1>2, <2>6 DEF CloseGroup, ScreenType
  <2>7. CASE OpenMenu
    BY <1>2, <2>7 DEF OpenMenu, ScreenType
  <2> QED BY <2>2, <2>3, <2>4, <2>5, <2>6, <2>7
<1>5. AppOK'
  BY <1>3, <1>4 DEF AppOK, LoginType, ScreenType
<1> QED BY <1>1, <1>5, PlainKeeps

LEMMA SelectOK ==
    ASSUME TInv, SelectChannel
    PROVE  /\ TInv' /\ Closes /\ UNCHANGED <<db, inbox>> /\ flight \subseteq flight'
           /\ UnreadCounted => UnreadCounted'
<1>1. PICK i \in DOMAIN channels, click \in BOOLEAN :
        /\ screen' = [screen EXCEPT !.cursor = i]
        /\ IF click \/ screen.active = NoGroup THEN MarkRead(channels[i]) ELSE UNCHANGED chat
        /\ Plain /\ UNCHANGED login
  BY DEF SelectChannel
<1>2. channels \in Seq(Channel) /\ screen \in ScreenType /\ TalkOK
  BY DEF TInv, ListsOK, AppOK
<1>3. i \in Nat \ {0} /\ channels[i] \in Conversation
  BY <1>2 DEF Conversation
<1>4. AppOK'
  BY <1>1, <1>2, <1>3 DEF TInv, AppOK, ScreenType
<1>5. CASE UNCHANGED chat
  BY <1>1, <1>4, <1>5, PlainKeeps
<1>6. CASE MarkRead(channels[i])
  <2>0. PICK c : c = channels[i]
    OBVIOUS
  <2>1. Shows(c, talk[c], 0, TRUE) /\ UNCHANGED <<cur, channels, groups>>
    BY <1>6, <2>0 DEF MarkRead
  <2>2. Transcript(talk[c]) /\ 0 \in 0..MaxTalk /\ c \in Conversation
    BY <1>2, <1>3, <2>0, ChatAssumption DEF TalkOK
  <2>3. /\ TalkOK'
        /\ \A e \in Conversation : e # c /\ Counts(e) => Counts(e)'
        /\ Counts(c)'
    BY <1>2, <2>1, <2>2, ShowsOK
  <2>4. UnreadCounted => UnreadCounted'
    BY <2>1, <2>3 DEF UnreadCounted
  <2>5. UNCHANGED <<vault, gen, db, sess, inbox>> /\ Starts({})
    BY <1>1 DEF Plain, ChatOnly, Starts
  <2>6. \A x \in {} : CommandOK(x)
    OBVIOUS
  <2> QED BY <1>4, <2>1, <2>3, <2>4, <2>5, <2>6, KeyKeeps
<1> QED BY <1>1, <1>5, <1>6

\* A key that may close the session, and starts commands on the vault.
LEMMA KeyCloses ==
    ASSUME TInv, UNCHANGED <<vault, gen, db, inbox>>, CloseSession, AppOK',
           NEW cs, Starts(cs), \A c \in cs : CommandOK(c)
    PROVE  /\ TInv' /\ Closes /\ UNCHANGED <<db, inbox>> /\ flight \subseteq flight'
           /\ UnreadCounted => UnreadCounted'
<1>1. /\ SessOK' /\ Lasting /\ ListsOK' /\ TalkOK' /\ (UnreadCounted => UnreadCounted')
      /\ Closes
  BY CloseOK
<1>2. DbOK' /\ VaultOK'
  BY DEF TInv, DbOK, VaultOK
<1>3. InboxOK'
  BY <1>1, MessageStays DEF TInv, InboxOK
<1>4. FlightOK' /\ flight \subseteq flight'
  BY DEF TInv, FlightOK, Starts, CommandOK
<1> QED BY <1>1, <1>2, <1>3, <1>4 DEF TInv

LEMMA BeginDeleteOK ==
    ASSUME TInv, BeginDelete
    PROVE  /\ TInv' /\ Closes /\ UNCHANGED <<db, inbox>> /\ flight \subseteq flight'
           /\ UnreadCounted => UnreadCounted'
<1>1. /\ \E recreate \in BOOLEAN : login' = [login EXCEPT !.deleting = TRUE, !.recreate = recreate]
      /\ CloseSession
      /\ \E a \in {screen.active, NoGroup} :
           screen' = [screen EXCEPT !.view = "vault", !.focus = TRUE, !.active = a]
      /\ UNCHANGED <<vault, db, gen, flight, inbox>>
  BY DEF BeginDelete
<1>2. login \in LoginType /\ screen \in ScreenType
  BY DEF TInv, AppOK
<1>3. login' \in LoginType
  BY <1>1, <1>2 DEF LoginType
<1>4. screen' \in ScreenType
  BY <1>1, <1>2 DEF ScreenType
<1>5. AppOK' /\ Starts({}) /\ \A c \in {} : CommandOK(c)
  BY <1>1, <1>3, <1>4 DEF AppOK, LoginType, ScreenType, Starts
<1> QED BY <1>1, <1>5, KeyCloses

LEMMA EnterVaultOK ==
    ASSUME TInv, EnterVault
    PROVE  /\ TInv' /\ Closes /\ UNCHANGED <<db, inbox>> /\ flight \subseteq flight'
           /\ UnreadCounted => UnreadCounted'
<1>1. UNCHANGED <<vault, db, gen, inbox>>
  BY DEF EnterVault
<1>2. login \in LoginType /\ screen \in ScreenType
  BY DEF TInv, AppOK
<1>3. \/ UNCHANGED login
      \/ login' = [login EXCEPT !.deleting = FALSE]
      \/ \E b \in BOOLEAN : login' = [login EXCEPT !.confirming = b]
  <2>1. \A text : (text # "") \in BOOLEAN
    OBVIOUS
  <2> QED BY <2>1 DEF EnterVault
<1>4. login' \in LoginType
  BY <1>2, <1>3 DEF LoginType
<1>5. \E f \in BOOLEAN, a \in {screen.active, NoGroup} :
        screen' = [screen EXCEPT !.focus = f] \/ screen' = [screen EXCEPT !.focus = f, !.active = a]
  BY DEF EnterVault
<1>6. screen' \in ScreenType
  BY <1>2, <1>5 DEF ScreenType
<1>7. AppOK'
  BY <1>4, <1>6 DEF AppOK, LoginType, ScreenType
<1>8. \E cs : Starts(cs) /\ \A c \in cs : c.op \in {"delete", "create", "unlock"}
  <2>1. \E text \in {"RADERA", "right", "wrong", ""} :
          \/ Starts({}) \/ Starts({[op |-> "delete"]})
          \/ Starts({[op |-> "create", n |-> Unlocks]})
          \/ Starts({[op |-> "unlock", right |-> text = "right", n |-> Unlocks]})
    BY DEF EnterVault
  <2>2. CASE Starts({})
    BY <2>2
  <2>3. CASE Starts({[op |-> "delete"]})
    BY <2>3
  <2>4. CASE Starts({[op |-> "create", n |-> Unlocks]})
    BY <2>4
  <2>5. ASSUME NEW text, Starts({[op |-> "unlock", right |-> text = "right", n |-> Unlocks]})
        PROVE  \E cs : Starts(cs) /\ \A c \in cs : c.op \in {"delete", "create", "unlock"}
    BY <2>5
  <2> QED BY <2>1, <2>2, <2>3, <2>4, <2>5
<1>9. PICK cs : Starts(cs) /\ \A c \in cs : c.op \in {"delete", "create", "unlock"}
  BY <1>8
<1>10. \A c \in cs : CommandOK(c)
  BY <1>9 DEF CommandOK
<1>11. CASE CloseSession
  BY <1>1, <1>7, <1>9, <1>10, <1>11, KeyCloses
<1>12. CASE UNCHANGED <<chat, sess>>
  <2>1. UNCHANGED <<sess, cur, channels, groups, shown>>
    BY <1>12 DEF chat
  <2>2. TalkOK' /\ (UnreadCounted => UnreadCounted')
    BY <2>1 DEF TInv, TalkOK, Strays, Transcript, shown, UnreadCounted, Counts
  <2> QED BY <1>1, <1>7, <1>9, <1>10, <2>1, <2>2, KeyKeeps
<1>13. CloseSession \/ UNCHANGED <<chat, sess>>
  BY DEF EnterVault
<1> QED BY <1>11, <1>12, <1>13

\* The commands that a key may start on the session of the screen; a contact
\* or a password may be given when there is none.
LEMMA KeyCommands ==
    ASSUME NEW s \in Session \cup {0}
    PROVE  /\ \A i \in BOOLEAN : CommandOK([op |-> "contact", s |-> s, invited |-> i])
           /\ \A g \in Group, k \in GroupKey :
                CommandOK([op |-> "unlockgroup", s |-> s, group |-> g, key |-> k])
           /\ s # 0 =>
                /\ \A g \in Group : /\ CommandOK([op |-> "dm", s |-> s, group |-> g])
                                    /\ CommandOK([op |-> "opengroup", s |-> s, group |-> g])
                                    /\ CommandOK([op |-> "group", s |-> s, group |-> g, new |-> TRUE])
                /\ \A g \in Group \cup {NoGroup} :
                     CommandOK([op |-> "group", s |-> s, group |-> g, new |-> FALSE])
                /\ \A c \in Channel : /\ CommandOK([op |-> "join", s |-> s, channel |-> c])
                                      /\ CommandOK([op |-> "leave", s |-> s, channel |-> c])
                /\ \A g \in Group, m \in Message :
                     CommandOK([op |-> "groupsend", s |-> s, group |-> g, m |-> m])
                /\ \A c \in Channel, m \in Message :
                     CommandOK([op |-> "send", s |-> s, channel |-> c, m |-> m])
<1>1. \A i \in BOOLEAN : CommandOK([op |-> "contact", s |-> s, invited |-> i])
  BY DEF CommandOK
<1>2. \A g \in Group, k \in GroupKey :
        CommandOK([op |-> "unlockgroup", s |-> s, group |-> g, key |-> k])
  BY DEF CommandOK
<1>3. ASSUME s # 0
      PROVE  \A g \in Group : /\ CommandOK([op |-> "dm", s |-> s, group |-> g])
                              /\ CommandOK([op |-> "opengroup", s |-> s, group |-> g])
  BY <1>3 DEF CommandOK
<1>4. ASSUME s # 0
      PROVE  /\ \A g \in Group : CommandOK([op |-> "group", s |-> s, group |-> g, new |-> TRUE])
             /\ \A g \in Group \cup {NoGroup} :
                  CommandOK([op |-> "group", s |-> s, group |-> g, new |-> FALSE])
  BY <1>4 DEF CommandOK
<1>5. ASSUME s # 0
      PROVE  \A c \in Channel : /\ CommandOK([op |-> "join", s |-> s, channel |-> c])
                                /\ CommandOK([op |-> "leave", s |-> s, channel |-> c])
  BY <1>5 DEF CommandOK
<1>6. ASSUME s # 0
      PROVE  \A g \in Group, m \in Message :
               CommandOK([op |-> "groupsend", s |-> s, group |-> g, m |-> m])
  BY <1>6 DEF CommandOK
<1>7. ASSUME s # 0
      PROVE  \A c \in Channel, m \in Message :
               CommandOK([op |-> "send", s |-> s, channel |-> c, m |-> m])
  BY <1>7 DEF CommandOK
<1> QED BY <1>1, <1>2, <1>3, <1>4, <1>5, <1>6, <1>7

\* A key that starts commands and leaves the chat as it is.
LEMMA StartKeeps ==
    ASSUME TInv, UNCHANGED <<vault, login, gen, db, sess, inbox, chat>>, screen' \in ScreenType,
           NEW cs, Starts(cs), \A c \in cs : CommandOK(c)
    PROVE  /\ TInv' /\ Closes /\ UNCHANGED <<db, inbox>> /\ flight \subseteq flight'
           /\ UnreadCounted => UnreadCounted'
<1>1. UNCHANGED <<vault, login, gen, db, sess, inbox, cur, channels, groups, shown>>
  BY DEF chat
<1>2. AppOK' /\ TalkOK' /\ (UnreadCounted => UnreadCounted')
  BY <1>1 DEF TInv, AppOK, LoginType, ScreenType, TalkOK, Strays, Transcript, shown, UnreadCounted, Counts
<1> QED BY <1>1, <1>2, KeyKeeps

LEMMA SelectedOK ==
    ASSUME TInv, channels # <<>> PROVE Selected \in Channel
<1>1. channels \in Seq(Channel) /\ screen.cursor \in Nat \ {0}
  BY DEF TInv, ListsOK, AppOK, ScreenType
<1>2. Len(channels) \in Nat \ {0}
  BY <1>1
<1>3. Least(screen.cursor, Len(channels)) \in 1..Len(channels)
  BY <1>1, <1>2 DEF Least
<1> QED BY <1>1, <1>3, ElementOfSeq DEF Selected

LEMMA MenuOK ==
    ASSUME TInv, MenuAction
    PROVE  /\ TInv' /\ Closes /\ UNCHANGED <<db, inbox>> /\ flight \subseteq flight'
           /\ UnreadCounted => UnreadCounted'
<1>1. UNCHANGED <<login, chat>> /\ screen \in ScreenType
  BY DEF MenuAction, TInv, AppOK
<1>2. CASE Plain
  <2>1. \/ screen' = [screen EXCEPT !.menu = FALSE]
        \/ screen' = [screen EXCEPT !.menu = FALSE, !.adding = TRUE, !.focus = TRUE]
    BY DEF MenuAction
  <2>2. AppOK'
    BY <1>1, <2>1 DEF TInv, AppOK, ScreenType, LoginType
  <2> QED BY <1>1, <1>2, <2>2, PlainKeeps
<1>3. CASE /\ cur # 0
           /\ \E g \in Direct : Starts({[op |-> "dm", s |-> cur, group |-> g]})
           /\ screen' = [screen EXCEPT !.menu = FALSE]
           /\ ChatOnly
  <2>1. PICK g \in Direct : Starts({[op |-> "dm", s |-> cur, group |-> g]})
    BY <1>3
  <2>2. g \in Group /\ cur \in Session \cup {0}
    BY ChatAssumption DEF TInv, ListsOK
  <2>3. CommandOK([op |-> "dm", s |-> cur, group |-> g])
    BY <1>3, <2>2, KeyCommands
  <2>4. \A c \in {[op |-> "dm", s |-> cur, group |-> g]} : CommandOK(c)
    BY <2>3
  <2>5. screen' \in ScreenType
    BY <1>1, <1>3 DEF ScreenType
  <2>6. UNCHANGED <<vault, login, gen, db, sess, inbox, chat>>
    BY <1>1, <1>3 DEF ChatOnly
  <2> QED BY <2>1, <2>4, <2>5, <2>6, StartKeeps
<1> QED BY <1>2, <1>3 DEF MenuAction

LEMMA ClickGroupOK ==
    ASSUME TInv, ClickGroup
    PROVE  /\ TInv' /\ Closes /\ UNCHANGED <<db, inbox>> /\ flight \subseteq flight'
           /\ UnreadCounted => UnreadCounted'
<1>1. PICK g \in groups :
        \/ Starts({[op |-> "dm", s |-> cur, group |-> g]}) /\ UNCHANGED screen
        \/ Starts({[op |-> "opengroup", s |-> cur, group |-> g]}) /\ UNCHANGED screen
        \/ screen' = [screen EXCEPT !.unlocking = g, !.focus = TRUE] /\ Starts({})
  BY DEF ClickGroup
<1>2. UNCHANGED <<vault, login, gen, db, sess, inbox, chat>>
  BY DEF ClickGroup, ChatOnly
<1>3. g \in Group /\ cur \in Session \cup {0} /\ cur # 0 /\ screen \in ScreenType
  BY DEF TInv, ListsOK, AppOK, ClickGroup
<1>4. screen' \in ScreenType
  BY <1>1, <1>3 DEF ScreenType
<1>5. /\ CommandOK([op |-> "dm", s |-> cur, group |-> g])
      /\ CommandOK([op |-> "opengroup", s |-> cur, group |-> g])
  BY <1>3, KeyCommands
<1>6. PICK cs : Starts(cs) /\ \A c \in cs : CommandOK(c)
  BY <1>1, <1>5
<1> QED BY <1>2, <1>4, <1>6, StartKeeps

LEMMA ClickLeaveOK ==
    ASSUME TInv, ClickLeave
    PROVE  /\ TInv' /\ Closes /\ UNCHANGED <<db, inbox>> /\ flight \subseteq flight'
           /\ UnreadCounted => UnreadCounted'
<1>1. /\ channels # <<>> /\ Starts({[op |-> "leave", s |-> cur, channel |-> Selected]})
      /\ cur # 0 /\ UNCHANGED <<vault, login, gen, db, sess, inbox, chat, screen>>
  BY DEF ClickLeave, Leave, ChatOnly
<1>2. Selected \in Channel /\ cur \in Session \cup {0} /\ screen' \in ScreenType
  BY <1>1, SelectedOK DEF TInv, ListsOK, AppOK
<1>3. CommandOK([op |-> "leave", s |-> cur, channel |-> Selected])
  BY <1>1, <1>2, KeyCommands
<1>4. \A c \in {[op |-> "leave", s |-> cur, channel |-> Selected]} : CommandOK(c)
  BY <1>3
<1> QED BY <1>1, <1>2, <1>4, StartKeeps

\* The line is a message to the selected channel: it is shown at once, and
\* counted.
LEMMA SendOK ==
    ASSUME TInv, UNCHANGED <<vault, login, gen, db, sess, inbox, cur, channels, groups>>,
           screen' \in ScreenType, cur # 0, channels # <<>>, NEW m \in Own,
           LET c == Selected
               a == TrimAndAdjust(c, Appended(c, m, TRUE))
           IN  /\ Starts({[op |-> "send", s |-> cur, channel |-> c, m |-> m]})
               /\ Shows(c, a.talk, a.read, FALSE)
    PROVE  /\ TInv' /\ Closes /\ UNCHANGED <<db, inbox>> /\ flight \subseteq flight'
           /\ UnreadCounted => UnreadCounted'
<1>0. PICK c : c = Selected
  OBVIOUS
<1> DEFINE a == TrimAndAdjust(c, Appended(c, m, TRUE))
<1>1. c \in Channel /\ c \in Conversation /\ m \in Message
  BY <1>0, SelectedOK DEF Conversation, Message
<1>2. /\ Starts({[op |-> "send", s |-> cur, channel |-> c, m |-> m]})
      /\ Shows(c, a.talk, a.read, FALSE)
  BY <1>0
<1>3. TalkOK /\ FALSE \in BOOLEAN
  BY DEF TInv
<1>4. /\ Transcript(a.talk) /\ a.read \in 0..MaxTalk
      /\ Exact(talk[c], read[c], Others(c)) => Exact(a.talk, a.read, Others(c))
  <2>1. m \in Others(c)
    BY <1>1 DEF Others
  <2> QED BY <1>1, <1>3, <2>1, EntryOf, TrimOK
<1> HIDE DEF a
<1>5. /\ TalkOK'
      /\ \A e \in Conversation : e # c /\ Counts(e) => Counts(e)'
      /\ Exact(a.talk, a.read, Others(c)) => Counts(c)'
  BY <1>1, <1>2, <1>3, <1>4, ShowsOK
<1>6. UnreadCounted => UnreadCounted'
  <2>1. Transcript(talk[c])
    BY <1>1, <1>3 DEF TalkOK
  <2>2. Counts(c) <=> Exact(talk[c], read[c], Others(c))
    BY <2>1, CountsIs
  <2> QED BY <1>1, <1>4, <1>5, <2>2 DEF UnreadCounted
<1>7. cur \in Session \cup {0}
  BY DEF TInv, ListsOK
<1>8. CommandOK([op |-> "send", s |-> cur, channel |-> c, m |-> m])
  BY <1>1, <1>7, KeyCommands
<1>9. \A x \in {[op |-> "send", s |-> cur, channel |-> c, m |-> m]} : CommandOK(x)
  BY <1>8
<1>10. AppOK'
  BY DEF TInv, AppOK, LoginType, ScreenType
<1> QED BY <1>2, <1>5, <1>6, <1>9, <1>10, KeyKeeps

LEMMA EnterTextOK ==
    ASSUME TInv, EnterText
    PROVE  /\ TInv' /\ Closes /\ UNCHANGED <<db, inbox>> /\ flight \subseteq flight'
           /\ UnreadCounted => UnreadCounted'
<1>1. UNCHANGED <<vault, login, cur, channels, groups, sess, db, gen, inbox>>
  BY DEF EnterText
<1>2. cur \in Session \cup {0} /\ screen \in ScreenType
  BY DEF TInv, ListsOK, AppOK
<1>3. screen.active \in Group \cup {NoGroup} /\ screen.unlocking \in Group \cup {NoGroup}
  BY <1>2 DEF ScreenType
<1>4. screen' \in ScreenType
  <2>1. \/ screen' = [screen EXCEPT !.focus = FALSE]
        \/ screen' = [screen EXCEPT !.focus = FALSE, !.unlocking = NoGroup]
        \/ \E i \in BOOLEAN : screen' = [screen EXCEPT !.focus = FALSE, !.adding = @ /\ i]
    BY DEF EnterText
  <2>2. CASE screen' = [screen EXCEPT !.focus = FALSE]
    BY <1>2, <2>2 DEF ScreenType
  <2>3. CASE screen' = [screen EXCEPT !.focus = FALSE, !.unlocking = NoGroup]
    BY <1>2, <2>3 DEF ScreenType
  <2>4. ASSUME NEW i \in BOOLEAN, screen' = [screen EXCEPT !.focus = FALSE, !.adding = @ /\ i]
        PROVE  screen' \in ScreenType
    <3> DEFINE b == screen.adding /\ i
    <3>1. b \in BOOLEAN /\ screen' = [screen EXCEPT !.focus = FALSE, !.adding = b]
      BY <2>4
    <3> HIDE DEF b
    <3> QED BY <1>2, <3>1 DEF ScreenType
  <2> QED BY <2>1, <2>2, <2>3, <2>4
<1>5. ASSUME UNCHANGED shown, NEW c, CommandOK(c), Starts({c}) \/ Starts({})
      PROVE  /\ TInv' /\ Closes /\ UNCHANGED <<db, inbox>> /\ flight \subseteq flight'
             /\ UnreadCounted => UnreadCounted'
  <2>1. PICK cs : Starts(cs) /\ \A x \in cs : CommandOK(x)
    BY <1>5
  <2>2. UNCHANGED <<vault, login, gen, db, sess, inbox, chat>>
    BY <1>1, <1>5 DEF chat
  <2> QED BY <1>4, <2>1, <2>2, StartKeeps
<1>6. {"right", "wrong"} \subseteq GroupKey
  BY DEF GroupKey
<1>7. CASE UNCHANGED shown /\ \E i \in BOOLEAN :
             Starts({[op |-> "contact", s |-> cur, invited |-> i]})
  BY <1>2, <1>5, <1>7, KeyCommands
<1>8. CASE /\ UNCHANGED shown /\ screen.unlocking # NoGroup
           /\ \E k \in {"right", "wrong"} :
                Starts({[op |-> "unlockgroup", s |-> cur, group |-> screen.unlocking, key |-> k]})
  BY <1>2, <1>3, <1>5, <1>6, <1>8, KeyCommands
<1>9. CASE UNCHANGED shown /\ Starts({})
  <2>1. CommandOK([op |-> "contact", s |-> cur, invited |-> TRUE])
    BY <1>2, KeyCommands
  <2> QED BY <1>5, <1>9, <2>1
<1>10. CASE /\ cur # 0 /\ UNCHANGED shown
            /\ \/ \E c \in Channel : Starts({[op |-> "join", s |-> cur, channel |-> c]})
               \/ Leave
               \/ \E g \in {NoGroup, screen.active} :
                    Starts({[op |-> "group", s |-> cur, group |-> g, new |-> FALSE]})
               \/ \E g \in Group \ Direct, k \in {"right", "wrong"} :
                    Starts({[op |-> "unlockgroup", s |-> cur, group |-> g, key |-> k]})
               \/ \E g \in Group \ Direct :
                    Starts({[op |-> "group", s |-> cur, group |-> g, new |-> TRUE]})
  <2>1. CASE \E c \in Channel : Starts({[op |-> "join", s |-> cur, channel |-> c]})
    BY <1>2, <1>5, <1>10, <2>1, KeyCommands
  <2>2. CASE Leave
    BY <1>2, <1>5, <1>10, <2>2, SelectedOK, KeyCommands DEF Leave
  <2>3. CASE \E g \in {NoGroup, screen.active} :
               Starts({[op |-> "group", s |-> cur, group |-> g, new |-> FALSE]})
    BY <1>2, <1>3, <1>5, <1>10, <2>3, KeyCommands
  <2>4. CASE \E g \in Group \ Direct, k \in {"right", "wrong"} :
               Starts({[op |-> "unlockgroup", s |-> cur, group |-> g, key |-> k]})
    BY <1>2, <1>5, <1>6, <1>10, <2>4, KeyCommands
  <2>5. CASE \E g \in Group \ Direct :
               Starts({[op |-> "group", s |-> cur, group |-> g, new |-> TRUE]})
    BY <1>2, <1>5, <1>10, <2>5, KeyCommands
  <2> QED BY <1>10, <2>1, <2>2, <2>3, <2>4, <2>5
<1>11. CASE /\ cur # 0 /\ screen.active # NoGroup /\ UNCHANGED shown
            /\ \E m \in Own :
                 Starts({[op |-> "groupsend", s |-> cur, group |-> screen.active, m |-> m]})
  <2>1. PICK m \in Own :
          Starts({[op |-> "groupsend", s |-> cur, group |-> screen.active, m |-> m]})
    BY <1>11
  <2>2. m \in Message
    BY DEF Message
  <2>3. screen.active \in Group
    BY <1>3, <1>11
  <2>4. CommandOK([op |-> "groupsend", s |-> cur, group |-> screen.active, m |-> m])
    BY <1>2, <1>11, <2>2, <2>3, KeyCommands
  <2> QED BY <1>5, <1>11, <2>1, <2>4
<1>12. ASSUME cur # 0, channels # <<>>, NEW m \in Own,
              LET c == Selected
                  a == TrimAndAdjust(c, Appended(c, m, TRUE))
              IN  /\ Starts({[op |-> "send", s |-> cur, channel |-> c, m |-> m]})
                  /\ Shows(c, a.talk, a.read, FALSE)
       PROVE  /\ TInv' /\ Closes /\ UNCHANGED <<db, inbox>> /\ flight \subseteq flight'
              /\ UnreadCounted => UnreadCounted'
  BY <1>1, <1>4, <1>12, SendOK
<1> QED BY <1>7, <1>8, <1>9, <1>10, <1>11, <1>12 DEF EnterText

LEMMA KeysOK ==
    ASSUME TInv, KeyPress
    PROVE  /\ TInv' /\ Closes /\ UNCHANGED <<db, inbox>> /\ flight \subseteq flight'
           /\ UnreadCounted => UnreadCounted'
<1>1. CASE \/ OpenGandr \/ LeaveView \/ BeginCreate \/ Esc \/ EnterChat \/ FocusInput
           \/ CloseGroup \/ OpenMenu \/ EnterSearch
  BY <1>1, PlainKeys
<1>2. CASE SelectChannel
  BY <1>2, SelectOK
<1>3. CASE BeginDelete
  BY <1>3, BeginDeleteOK
<1>4. CASE EnterVault
  BY <1>4, EnterVaultOK
<1>5. CASE MenuAction
  BY <1>5, MenuOK
<1>6. CASE ClickGroup \/ ClickLeave
  BY <1>6, ClickGroupOK, ClickLeaveOK
<1>7. CASE EnterText
  BY <1>7, EnterTextOK
<1> QED BY <1>1, <1>2, <1>3, <1>4, <1>5, <1>6, <1>7 DEF KeyPress

-----------------------------------------------------------------------------
(* The state is well formed.                                               *)

LEMMA InitTypes == ASSUME Init PROVE TInv
<1>1. 1 \in Gen /\ 0 \in 0..MaxVaults /\ 1 \in 0..MaxVaults /\ 0 \in 0..MaxTalk
  BY ChatAssumption DEF Gen
<1>2. VaultOK
  BY <1>1 DEF Init, VaultOK
<1>3. AppOK
  <2>1. login \in LoginType
    BY DEF Init, LoginType
  <2>2. screen \in ScreenType
    BY DEF Init, ScreenType
  <2> QED BY <2>1, <2>2 DEF AppOK
<1>4. ListsOK
  <2>1. <<>> \in Seq(Channel)
    OBVIOUS
  <2> QED BY <2>1 DEF Init, ListsOK
<1>5. TalkOK
  <2>1. <<>> \in Seq(Entry) /\ Len(<<>>) = 0 /\ 0 <= MaxTalk
    BY ChatAssumption
  <2>2. talk = [c \in Conversation |-> <<>>] /\ read = [c \in Conversation |-> 0]
    BY DEF Init, NoTalk
  <2>3. Strays
    <3>1. <<>> \in Seq(Remote) /\ Len(<<>>) = 0 /\ 0 <= MaxTalk
      BY ChatAssumption
    <3> QED BY <3>1 DEF Init, Strays, NoStray
  <2> QED BY <1>1, <2>1, <2>2, <2>3 DEF TalkOK, Transcript
<1>6. SessOK
  <2>1. <<>> \in Seq(Remote) /\ Len(<<>>) = 0 /\ [g \in Group |-> "none"] \in [Group -> GroupKey]
    BY DEF GroupKey
  <2>2. NoSession \in SessType /\ Len(NoSession.queue) <= QueueCap
    BY <1>1, <2>1, ChatAssumption DEF NoSession, SessType
  <2>3. sess = [s \in Session |-> NoSession]
    BY DEF Init
  <2> QED BY <2>2, <2>3 DEF SessOK
<1>7. DbOK
  <2>1. NoData \in DbType /\ Distinct(NoData.channels)
    <3>1. <<>> \in Seq(Channel) /\ <<>> \in Seq([m : Message])
          /\ <<>> \in Seq([m : Message, key : GroupKey])
      OBVIOUS
    <3> QED BY <3>1 DEF NoData, DbType, Distinct
  <2>2. \E start \in StartData \cup {NoData} : db = [x \in Gen |-> IF x = 1 THEN start ELSE NoData]
    BY DEF Init
  <2> QED BY <2>1, <2>2, ChatAssumption DEF DbOK
<1>8. FlightOK /\ InboxOK
  BY DEF Init, FlightOK, InboxOK
<1> QED BY <1>2, <1>3, <1>4, <1>5, <1>6, <1>7, <1>8 DEF TInv

LEMMA UpdateTypes == ASSUME TInv, Update PROVE TInv' /\ (UnreadCounted => UnreadCounted')
<1>1. CASE ApplyIncoming \/ ApplyUnreadable \/ ApplyGroupIncoming
  BY <1>1, ApplyIncomings
<1>2. CASE ApplySession
  BY <1>2, ApplySessionOK
<1>3. CASE ApplyVault \/ PauseEnds \/ ApplyGroup \/ ApplyChannels \/ ApplyContact \/ ApplyDelete
  BY <1>3, OtherMessages
<1> QED BY <1>1, <1>2, <1>3 DEF Update

LEMMA Stutter == ASSUME TInv, UNCHANGED vars PROVE TInv'
<1>1. UNCHANGED <<vault, login, screen, cur, channels, groups, shown, sess, db, gen, flight, inbox>>
  BY DEF vars, chat
<1>2. VaultOK' /\ AppOK' /\ TalkOK' /\ SessOK' /\ DbOK' /\ Lasting
  BY <1>1 DEF TInv, VaultOK, AppOK, LoginType, ScreenType, TalkOK, Strays, Transcript, shown, SessOK, DbOK,
              Lasting, Exists
<1>3. ListsOK' /\ FlightOK'
  BY <1>1, <1>2 DEF TInv, ListsOK, FlightOK, CommandOK, Lasting
<1>4. InboxOK'
  BY <1>1, <1>2, MessageStays DEF TInv, InboxOK
<1> QED BY <1>2, <1>3, <1>4 DEF TInv

LEMMA TypesHold == Spec => []TInv
<1>1. Init => TInv
  BY InitTypes
<1>2. TInv /\ [Next]_vars => TInv'
  <2> SUFFICES ASSUME TInv, [Next]_vars PROVE TInv'
    OBVIOUS
  <2>1. CASE Run
    BY <2>1, RunTypes
  <2>2. CASE Update
    BY <2>2, UpdateTypes
  <2>3. CASE KeyPress
    BY <2>3, KeysOK
  <2>4. CASE UNCHANGED vars
    BY <2>4, Stutter
  <2> QED BY <2>1, <2>2, <2>3, <2>4 DEF Next
<1> QED BY <1>1, <1>2, PTL DEF Spec

\* Every variable has its type: no conversation is longer than App keeps, no
\* queue longer than a client's, and a failure counter stops at three.
THEOREM TypeCorrect == Spec => []TypeOK
<1>1. TInv => TypeOK
  <2> SUFFICES ASSUME TInv PROVE TypeOK
    OBVIOUS
  <2>1. /\ vault \in [file : 0..MaxVaults, identity : 0..MaxVaults, made : 0..MaxVaults]
        /\ gen \in Gen
    BY DEF TInv, VaultOK
  <2>2. /\ login.failures \in 0..3 /\ screen.view \in {"other", "vault", "chat"}
        /\ screen.active \in Group \cup {NoGroup} /\ screen.unlocking \in Group \cup {NoGroup}
    BY DEF TInv, AppOK, LoginType, ScreenType
  <2>3. cur \in 0..MaxSessions /\ groups \subseteq Group
    BY ChatAssumption DEF TInv, ListsOK, Session
  <2>4. Elems(channels) \subseteq Channel
    BY DEF TInv, ListsOK, Elems
  <2>5. talk \in [Conversation -> Talks] /\ read \in [Conversation -> 0..MaxTalk]
    BY TranscriptIsTalk DEF TInv, TalkOK
  <2>7. /\ \A g \in Group : Elems(stray[g]) \subseteq Remote /\ Len(stray[g]) <= MaxTalk
        /\ lowered \subseteq Group
    BY DEF TInv, TalkOK, Strays, Elems
  <2>6. \A s \in Session : /\ sess[s].kind \in Transports \cup {"offline"} /\ sess[s].subs \subseteq Conversation
                           /\ Len(sess[s].queue) <= QueueCap
    BY DEF TInv, SessOK, SessType
  <2> QED BY <2>1, <2>2, <2>3, <2>4, <2>5, <2>6, <2>7 DEF TypeOK
<1> QED BY <1>1, TypesHold, PTL

-----------------------------------------------------------------------------
(* What the commands do to channels and subscriptions.                     *)

HalfWay == {"joined", "left"}

\* A command that has no effect.  One that was half way is given up when its
\* session was closed, or when its gandrd refused it.
Idle(c) ==
    /\ flight \ {c} \subseteq flight' /\ UNCHANGED <<sess, db>>
    /\ c.op \in HalfWay => ~IsOpen(c.s) \/ sess[c.s].kind = "ipc"

\* A command that has one, in its own session and database: a channel that is
\* listed there without a subscription was so before, or is half way now.
Acts(c) ==
    /\ c.s \in Session /\ IsOpen(c.s) /\ Alike(sess')
    /\ flight \ {c} \subseteq flight'
    /\ \E d : /\ Table(d) /\ db' = Stored(c.s, d)
              /\ sess[c.s].kind = "embedded" =>
                   \A ch \in Elems(d.channels) \ sess'[c.s].subs :
                      \/ /\ ch \in Elems(Data(c.s).channels) \ sess[c.s].subs
                         /\ ~(c.op \in HalfWay /\ c.channel = ch)
                      \/ \E x \in flight' : x.op \in HalfWay /\ x.s = c.s /\ x.channel = ch

LEMMA FailsIdle ==
    ASSUME NEW c, NEW msg, Fails(c, msg), c.op \notin HalfWay
    PROVE  Idle(c) /\ UNCHANGED chat /\ inbox \subseteq inbox'
  BY DEF Fails, Ends, Idle

LEMMA DoesActs ==
    ASSUME TInv, NEW c, NEW d, NEW x, NEW msgs, Does(c, d, x, msgs), c.op \notin HalfWay,
           c.s \in Session, Table(d), Alike(x), Hears(x), d.channels = Data(c.s).channels
    PROVE  Acts(c) /\ UNCHANGED chat /\ inbox \subseteq inbox'
  BY DEF Does, Ends, Acts, Hears

\* The four steps of joining and leaving.
LEMMA ChannelSteps ==
    ASSUME TInv, GandrJoin \/ Joined \/ GandrLeave \/ Left
    PROVE  /\ \E c \in flight : Idle(c) \/ Acts(c)
           /\ UNCHANGED chat /\ inbox \subseteq inbox'
<1>0. SessOK /\ DbOK
  BY DEF TInv
<1>1. ASSUME NEW c \in flight, c.op \in {"join", "joined", "leave", "left"}
      PROVE  /\ c \in [op : {"join", "joined", "leave", "left"}, s : Session, channel : Channel]
             /\ c.s \in Session /\ c.channel \in Channel /\ c.channel \in Conversation
             /\ Table(Data(c.s))
  <2>1. c \in [op : {"join", "joined", "leave", "left"}, s : Session, channel : Channel]
    BY <1>1 DEF TInv, FlightOK, CommandOK
  <2>2. c.s \in Session /\ c.channel \in Channel
    BY <2>1
  <2> QED BY <2>1, <2>2, <1>0, DataOK DEF Conversation
<1>2. ASSUME NEW c \in flight, Refused(c, ChannelsErr)
      PROVE  Idle(c) /\ UNCHANGED chat /\ inbox \subseteq inbox'
  BY <1>2 DEF Refused, Fails, Ends, Idle
<1>3. CASE GandrJoin
  <2>1. PICK c \in flight : c.op = "join" /\ (Refused(c, ChannelsErr)
              \/ Continues(c, "joined", JoinChannel(Data(c.s), c.channel), sess))
    BY <1>3 DEF GandrJoin
  <2>2. CASE Continues(c, "joined", JoinChannel(Data(c.s), c.channel), sess)
    <3> DEFINE d == JoinChannel(Data(c.s), c.channel)
               e == [c EXCEPT !.op = "joined"]
    <3>1. Table(d) /\ Elems(d.channels) = Elems(Data(c.s).channels) \cup {c.channel}
      BY <1>1, <2>1, JoinTable
    <3>2. e.op = "joined" /\ e.s = c.s /\ e.channel = c.channel
      BY <1>1, <2>1
    <3>3. /\ IsOpen(c.s) /\ db' = Stored(c.s, d) /\ sess' = sess
          /\ flight' = (flight \ {c}) \cup {e} /\ UNCHANGED <<chat, inbox>>
      BY <2>2 DEF Continues
    <3> HIDE DEF d, e
    <3>4. \A ch \in Elems(d.channels) \ sess'[c.s].subs :
            \/ ch \in Elems(Data(c.s).channels) \ sess[c.s].subs /\ ~(c.op \in HalfWay /\ c.channel = ch)
            \/ \E x \in flight' : x.op \in HalfWay /\ x.s = c.s /\ x.channel = ch
      BY <2>1, <3>1, <3>2, <3>3 DEF HalfWay
    <3> QED BY <1>0, <1>1, <2>1, <3>1, <3>3, <3>4, AlikeSelf DEF Acts
  <2> QED BY <1>2, <2>1, <2>2
<1>4. CASE Joined
  <2>1. PICK c \in flight : c.op = "joined" /\ (Refused(c, ChannelsErr)
              \/ (sess[c.s].kind = "ipc" /\ Fails(c, ChannelsErr))
              \/ Does(c, Data(c.s), Subscribe(c.s, c.channel), {ChannelsMsg(Data(c.s).channels)}))
    BY <1>4 DEF Joined
  <2>2. CASE sess[c.s].kind = "ipc" /\ Fails(c, ChannelsErr)
    BY <2>1, <2>2 DEF Fails, Ends, Idle
  <2>3. CASE Does(c, Data(c.s), Subscribe(c.s, c.channel), {ChannelsMsg(Data(c.s).channels)})
    <3>1. /\ c.s \in Session /\ Table(Data(c.s)) /\ Alike(Subscribe(c.s, c.channel))
          /\ Hears(Subscribe(c.s, c.channel))
          /\ sess[c.s].kind # "offline" => c.channel \in Subscribe(c.s, c.channel)[c.s].subs
      BY <1>0, <1>1, <2>1, SubscribeAlike
    <3>2. /\ IsOpen(c.s) /\ db' = Stored(c.s, Data(c.s)) /\ sess' = Subscribe(c.s, c.channel)
          /\ flight' = flight \ {c} /\ UNCHANGED chat /\ inbox \subseteq inbox'
      BY <2>3 DEF Does, Ends
    <3>3. Alike(sess') /\ sess[c.s].subs \subseteq sess'[c.s].subs
          /\ (sess[c.s].kind # "offline" => c.channel \in sess'[c.s].subs)
      BY <3>1, <3>2 DEF Hears
    <3>4. sess[c.s].kind = "embedded" =>
            \A ch \in Elems(Data(c.s).channels) \ sess'[c.s].subs :
               ch \in Elems(Data(c.s).channels) \ sess[c.s].subs /\ c.channel # ch
      BY <3>3
    <3> QED BY <3>1, <3>2, <3>3, <3>4 DEF Acts
  <2> QED BY <1>2, <2>1, <2>2, <2>3
<1>5. CASE GandrLeave
  <2>1. PICK c \in flight : c.op = "leave" /\ (Refused(c, ChannelsErr)
              \/ Continues(c, "left", Data(c.s), Unsubscribe(c.s, c.channel)))
    BY <1>5 DEF GandrLeave
  <2>2. CASE Continues(c, "left", Data(c.s), Unsubscribe(c.s, c.channel))
    <3> DEFINE e == [c EXCEPT !.op = "left"]
    <3>1. /\ c.s \in Session /\ Table(Data(c.s)) /\ Alike(Unsubscribe(c.s, c.channel))
          /\ Unsubscribe(c.s, c.channel)[c.s].subs = sess[c.s].subs \ {c.channel}
      BY <1>0, <1>1, <2>1, UnsubscribeAlike
    <3>2. e.op = "left" /\ e.s = c.s /\ e.channel = c.channel
      BY <1>1, <2>1
    <3>3. /\ IsOpen(c.s) /\ db' = Stored(c.s, Data(c.s)) /\ sess' = Unsubscribe(c.s, c.channel)
          /\ flight' = (flight \ {c}) \cup {e} /\ UNCHANGED <<chat, inbox>>
      BY <2>2 DEF Continues
    <3> HIDE DEF e
    <3>4. Alike(sess') /\ sess'[c.s].subs = sess[c.s].subs \ {c.channel}
      BY <3>1, <3>3
    <3>5. \A ch \in Elems(Data(c.s).channels) \ sess'[c.s].subs :
            \/ ch \in Elems(Data(c.s).channels) \ sess[c.s].subs /\ ~(c.op \in HalfWay /\ c.channel = ch)
            \/ \E x \in flight' : x.op \in HalfWay /\ x.s = c.s /\ x.channel = ch
      BY <2>1, <3>2, <3>3, <3>4 DEF HalfWay
    <3> QED BY <3>1, <3>3, <3>4, <3>5 DEF Acts
  <2> QED BY <1>2, <2>1, <2>2
<1>6. CASE Left
  <2>1. PICK c \in flight : c.op = "left" /\ (Refused(c, ChannelsErr)
              \/ Does(c, LeaveChannel(Data(c.s), c.channel), sess,
                      {ChannelsMsg(LeaveChannel(Data(c.s), c.channel).channels)}))
    BY <1>6 DEF Left
  <2>2. CASE Does(c, LeaveChannel(Data(c.s), c.channel), sess,
                  {ChannelsMsg(LeaveChannel(Data(c.s), c.channel).channels)})
    <3> DEFINE d == LeaveChannel(Data(c.s), c.channel)
    <3>1. c.s \in Session /\ Table(d) /\ Elems(d.channels) \subseteq Elems(Data(c.s).channels) \ {c.channel}
      BY <1>1, <2>1, LeaveTable
    <3>2. /\ IsOpen(c.s) /\ db' = Stored(c.s, d) /\ sess' = sess
          /\ flight' = flight \ {c} /\ UNCHANGED chat /\ inbox \subseteq inbox'
      BY <2>2 DEF Does, Ends
    <3> HIDE DEF d
    <3>3. \A ch \in Elems(d.channels) \ sess'[c.s].subs :
            ch \in Elems(Data(c.s).channels) \ sess[c.s].subs /\ c.channel # ch
      BY <3>1, <3>2
    <3> QED BY <1>0, <3>1, <3>2, <3>3, AlikeSelf DEF Acts
  <2> QED BY <1>2, <2>1, <2>2
<1> QED BY <1>3, <1>4, <1>5, <1>6

\* The other commands of a session.
LEMMA SessionSteps ==
    ASSUME TInv,
           \/ SendChannel \/ UnlockAndOpenGandrGroup \/ StartGandrDM \/ OpenGandrGroup
           \/ GandrGroupCommand \/ SendPrivateGroup \/ AddGandrContact \/ AcceptInvitation
    PROVE  /\ \E c \in flight : Idle(c) \/ Acts(c)
           /\ UNCHANGED chat /\ inbox \subseteq inbox'
<1> DEFINE Done == /\ \E c \in flight : Idle(c) \/ Acts(c)
                   /\ UNCHANGED chat /\ inbox \subseteq inbox'
<1>0. SessOK /\ DbOK /\ Alike(sess) /\ Hears(sess)
  BY AlikeSelf DEF TInv
<1>1. ASSUME NEW c \in flight, NEW msg, Refused(c, msg) \/ Fails(c, msg), c.op \notin HalfWay
      PROVE  Done
  BY <1>1, FailsIdle DEF Refused
<1>2. ASSUME NEW c \in flight, NEW d, NEW x, NEW msgs, Does(c, d, x, msgs), c.op \notin HalfWay,
             c.s \in Session, Table(d), Alike(x), Hears(x), d.channels = Data(c.s).channels
      PROVE  Done
  BY <1>2, DoesActs
<1>3. ASSUME NEW c, NEW d, NEW x, NEW msgs, Does(c, d, x, msgs), c.s \in Session \cup {0}
      PROVE  c.s \in Session /\ Table(Data(c.s))
  <2>1. c.s \in Session
    BY <1>3 DEF Does, IsOpen
  <2> QED BY <2>1, <1>0, DataOK
<1>4. \A o \in {"send", "unlockgroup", "dm", "opengroup", "group", "groupsend", "contact"} :
        o \notin HalfWay
  BY DEF HalfWay
<1> SUFFICES Done
  OBVIOUS
<1> HIDE DEF Done
<1>5. CASE SendChannel
  <2>1. PICK c \in flight : c.op = "send" /\ (Refused(c, ChannelsErr) \/ Fails(c, ChannelsErr)
              \/ Does(c, SaveChatMessage(Data(c.s), c.channel, c.m), sess, {}))
    BY <1>5 DEF SendChannel
  <2>2. c.s \in Session /\ c.channel \in Channel /\ c.m \in Message
    BY <2>1 DEF TInv, FlightOK, CommandOK
  <2>3. /\ Table(SaveChatMessage(Data(c.s), c.channel, c.m))
        /\ SaveChatMessage(Data(c.s), c.channel, c.m).channels = Data(c.s).channels
    BY <1>0, <2>2, DataOK, ChatTable
  <2> QED BY <1>0, <1>1, <1>2, <1>4, <2>1, <2>2, <2>3
<1>6. CASE UnlockAndOpenGandrGroup
  <2>1. PICK c \in flight : c.op = "unlockgroup" /\ (Refused(c, GroupErr)
              \/ Does(c, SavePrivateGroup(Data(c.s), c.group),
                      UnlockPrivateGroup(c.s, c.group, c.key),
                      {PrivateGroupMessages(SavePrivateGroup(Data(c.s), c.group), c.group, c.key)}))
    BY <1>6 DEF UnlockAndOpenGandrGroup
  <2>2. c.s \in Session \cup {0} /\ c.group \in Group /\ c.key \in GroupKey
    BY <2>1 DEF TInv, FlightOK, CommandOK
  <2>3. CASE Does(c, SavePrivateGroup(Data(c.s), c.group),
                  UnlockPrivateGroup(c.s, c.group, c.key),
                  {PrivateGroupMessages(SavePrivateGroup(Data(c.s), c.group), c.group, c.key)})
    <3>1. c.s \in Session /\ Table(Data(c.s))
      BY <1>3, <2>2, <2>3
    <3>2. /\ Table(SavePrivateGroup(Data(c.s), c.group))
          /\ SavePrivateGroup(Data(c.s), c.group).channels = Data(c.s).channels
          /\ Alike(UnlockPrivateGroup(c.s, c.group, c.key))
          /\ Hears(UnlockPrivateGroup(c.s, c.group, c.key))
      BY <1>0, <2>2, <3>1, OtherTables, UnlockAlike
    <3> QED BY <1>2, <1>4, <2>1, <2>3, <3>1, <3>2
  <2> QED BY <1>1, <1>4, <2>1, <2>3
<1>7. CASE StartGandrDM
  <2>1. PICK c \in flight : c.op = "dm" /\ (Refused(c, GroupErr)
              \/ Does(c, SavePrivateGroup(Data(c.s), c.group), StartDirectMessage(c.s, c.group),
                      {PrivateGroupMessages(SavePrivateGroup(Data(c.s), c.group), c.group, "right")}))
    BY <1>7 DEF StartGandrDM
  <2>2. c.s \in Session /\ c.group \in Group
    BY <2>1 DEF TInv, FlightOK, CommandOK
  <2>3. /\ Table(SavePrivateGroup(Data(c.s), c.group))
        /\ SavePrivateGroup(Data(c.s), c.group).channels = Data(c.s).channels
        /\ Alike(StartDirectMessage(c.s, c.group)) /\ Hears(StartDirectMessage(c.s, c.group))
    BY <1>0, <2>2, DataOK, OtherTables, DirectAlike
  <2> QED BY <1>1, <1>2, <1>4, <2>1, <2>2, <2>3
<1>8. CASE OpenGandrGroup
  <2>1. PICK c \in flight : c.op = "opengroup" /\ (Refused(c, GroupErr)
              \/ Does(c, Data(c.s), sess,
                      {PrivateGroupMessages(Data(c.s), c.group, sess[c.s].keys[c.group])}))
    BY <1>8 DEF OpenGandrGroup
  <2>2. c.s \in Session /\ Table(Data(c.s))
    BY <1>0, <2>1, DataOK DEF TInv, FlightOK, CommandOK
  <2> QED BY <1>0, <1>1, <1>2, <1>4, <2>1, <2>2
<1>9. CASE GandrGroupCommand
  <2>1. PICK c \in flight : c.op = "group" /\
          (\/ Refused(c, GroupErr) \/ Fails(c, GroupErr)
           \/ c.new /\ Does(c, SavePrivateGroup(Data(c.s), c.group), CreatePrivateGroup(c.s, c.group),
                        {GroupMsg(SavePrivateGroup(Data(c.s), c.group).groups, c.group, FALSE, <<>>)})
           \/ Does(c, Data(c.s), sess, {GroupMsg(Data(c.s).groups, c.group, FALSE, <<>>)}))
    BY <1>9 DEF GandrGroupCommand
  <2>2. c.s \in Session /\ (c.new => c.group \in Group)
    BY <2>1 DEF TInv, FlightOK, CommandOK
  <2>3. Table(Data(c.s))
    BY <1>0, <2>2, DataOK
  <2>4. CASE c.new /\ Does(c, SavePrivateGroup(Data(c.s), c.group), CreatePrivateGroup(c.s, c.group),
                        {GroupMsg(SavePrivateGroup(Data(c.s), c.group).groups, c.group, FALSE, <<>>)})
    <3>1. c.group \in Group /\ "right" \in GroupKey
      BY <2>2, <2>4 DEF GroupKey
    <3>2. /\ Table(SavePrivateGroup(Data(c.s), c.group))
          /\ SavePrivateGroup(Data(c.s), c.group).channels = Data(c.s).channels
          /\ Alike(CreatePrivateGroup(c.s, c.group)) /\ Hears(CreatePrivateGroup(c.s, c.group))
      BY <1>0, <2>2, <2>3, <3>1, OtherTables, UnlockAlike DEF CreatePrivateGroup
    <3> QED BY <1>2, <1>4, <2>1, <2>2, <2>4, <3>2
  <2> QED BY <1>0, <1>1, <1>2, <1>4, <2>1, <2>2, <2>3, <2>4
<1>10. CASE SendPrivateGroup
  <2>1. PICK c \in flight : c.op = "groupsend" /\
          (\/ Refused(c, GroupErr) \/ Fails(c, GroupErr)
           \/ Does(c, SavePrivateGroupMessage(Data(c.s), c.group, c.m, sess[c.s].keys[c.group]), sess,
                   {PrivateGroupMessages(SavePrivateGroupMessage(Data(c.s), c.group, c.m, sess[c.s].keys[c.group]),
                                         c.group, sess[c.s].keys[c.group])}))
    BY <1>10 DEF SendPrivateGroup
  <2>2. c.s \in Session /\ c.group \in Group /\ c.m \in Message
    BY <2>1 DEF TInv, FlightOK, CommandOK
  <2>3. sess[c.s].keys[c.group] \in GroupKey
    BY <1>0, <2>2 DEF SessOK, SessType
  <2>4. /\ Table(SavePrivateGroupMessage(Data(c.s), c.group, c.m, sess[c.s].keys[c.group]))
        /\ SavePrivateGroupMessage(Data(c.s), c.group, c.m, sess[c.s].keys[c.group]).channels
             = Data(c.s).channels
    BY <1>0, <2>2, <2>3, DataOK, GroupTable
  <2> QED BY <1>0, <1>1, <1>2, <1>4, <2>1, <2>2, <2>4
<1>11. CASE AddGandrContact \/ AcceptInvitation
  <2>1. PICK c \in flight : c.op = "contact" /\ \E e, i :
          Fails(c, ContactMsg(e, i)) \/ Does(c, SetNickname(Data(c.s)), sess, {ContactMsg(e, i)})
    BY <1>11 DEF AddGandrContact, AcceptInvitation
  <2>2. PICK e, i :
          Fails(c, ContactMsg(e, i)) \/ Does(c, SetNickname(Data(c.s)), sess, {ContactMsg(e, i)})
    BY <2>1
  <2>3. CASE Does(c, SetNickname(Data(c.s)), sess, {ContactMsg(e, i)})
    <3>1. c.s \in Session \cup {0}
      BY <2>1 DEF TInv, FlightOK, CommandOK
    <3>2. c.s \in Session /\ Table(Data(c.s))
      BY <1>3, <2>3, <3>1
    <3>3. Table(SetNickname(Data(c.s))) /\ SetNickname(Data(c.s)).channels = Data(c.s).channels
      BY <3>2 DEF Table, DbType, SetNickname
    <3> QED BY <1>0, <1>2, <1>4, <2>1, <2>3, <3>2, <3>3
  <2> QED BY <1>1, <1>4, <2>1, <2>2, <2>3
<1> QED BY <1>5, <1>6, <1>7, <1>8, <1>9, <1>10, <1>11

\* What a step outside Update may do to the sessions and the database.
LEMMA RunSteps ==
    ASSUME TInv, Run
    PROVE  /\ \/ \E c \in flight : Idle(c) \/ Acts(c)
              \/ \E c \in flight, s \in Session, kind \in Transports, subscribed \in BOOLEAN : \E d :
                   /\ c.op = "connect" /\ sess[s].state = "none" /\ Table(d)
                   /\ Opens(c, s, kind, d, subscribed)
              \/ Push
              \/ WaitGandrIncoming
           /\ UNCHANGED chat /\ inbox \subseteq inbox'
<1>1. CASE GandrJoin \/ Joined \/ GandrLeave \/ Left
  BY <1>1, ChannelSteps
<1>2. CASE \/ SendChannel \/ UnlockAndOpenGandrGroup \/ StartGandrDM \/ OpenGandrGroup
           \/ GandrGroupCommand \/ SendPrivateGroup \/ AddGandrContact \/ AcceptInvitation
  BY <1>2, SessionSteps
<1>3. CASE UnlockGandr \/ CreateGandr \/ SaveKeyfile \/ DeleteGandr
  <2>1. PICK c \in flight :
          /\ c.op \in {"unlock", "create", "save", "delete"} /\ UNCHANGED <<sess, db, chat>>
          /\ flight \ {c} \subseteq flight' /\ inbox \subseteq inbox'
    BY <1>3 DEF UnlockGandr, CreateGandr, SaveKeyfile, DeleteGandr, Ends
  <2>2. c.op \notin HalfWay
    BY <2>1 DEF HalfWay
  <2> QED BY <2>1, <2>2 DEF Idle
<1>4. CASE ConnectGandr
  <2>1. PICK c \in flight : c.op = "connect" /\
          \/ Fails(c, [kind |-> "session", err |-> TRUE])
          \/ \E s \in Session, kind \in Transports, subscribed \in BOOLEAN : \E d :
               sess[s].state = "none" /\ Table(d) /\ Opens(c, s, kind, d, subscribed)
    BY <1>4, ConnectSteps
  <2>2. CASE Fails(c, [kind |-> "session", err |-> TRUE])
    BY <2>1, <2>2, FailsIdle DEF HalfWay
  <2>3. UNCHANGED chat /\ inbox \subseteq inbox'
    BY <2>1 DEF Opens, Fails, Ends
  <2> QED BY <2>1, <2>2, <2>3
<1>5. CASE Push \/ WaitGandrIncoming
  BY <1>5 DEF Push, WaitGandrIncoming
<1> QED BY <1>1, <1>2, <1>3, <1>4, <1>5 DEF Run

\* No trim, reload or late message makes a badge hide what somebody else wrote
\* since the conversation was marked read, or count what was read: but for the
\* user's own lines, and in a group whose count unreadable messages lowered.
THEOREM BadgesCount == Spec => []UnreadCounted
<1>1. Init => UnreadCounted
  BY DEF Init, UnreadCounted
<1>2. TInv /\ UnreadCounted /\ [Next]_vars => UnreadCounted'
  <2> SUFFICES ASSUME TInv, UnreadCounted, [Next]_vars PROVE UnreadCounted'
    OBVIOUS
  <2>1. CASE Run
    <3>1. UNCHANGED <<cur, shown>>
      BY <2>1, RunSteps DEF chat
    <3> QED BY <3>1 DEF UnreadCounted, Counts, shown
  <2>2. CASE Update
    BY <2>2, UpdateTypes
  <2>3. CASE KeyPress
    BY <2>3, KeysOK
  <2>4. CASE UNCHANGED vars
    BY <2>4 DEF vars, chat, shown, UnreadCounted, Counts
  <2> QED BY <2>1, <2>2, <2>3, <2>4 DEF Next
<1> QED BY <1>1, <1>2, TypesHold, PTL DEF Spec

-----------------------------------------------------------------------------
(* The session on the screen is listened to.                               *)

LEMMA ArmedStays ==
    ASSUME TInv, ListenerArmed, cur' = cur, \A m \in inbox : m.kind = "incoming" => m \in inbox',
           cur # 0 => sess'[cur].kind = sess[cur].kind /\ sess'[cur].waiters >= sess[cur].waiters,
           sess' \in [Session -> SessType]
    PROVE  ListenerArmed'
<1>1. CASE cur = 0
  BY <1>1 DEF ListenerArmed
<1>2. CASE cur # 0
  <2>1. cur \in Session
    BY <1>2 DEF TInv, ListsOK
  <2>2. sess[cur].waiters \in Nat /\ sess'[cur].waiters \in Nat
    BY <2>1 DEF TInv, SessOK, SessType
  <2> QED BY <1>2, <2>2 DEF ListenerArmed
<1> QED BY <1>1, <1>2

\* The wait for messages is armed again after each one: as long as there is a
\* session with a daemon, what the daemon pushes reaches the screen.
THEOREM ListenerIsArmed == Spec => []ListenerArmed
<1>1. Init => ListenerArmed
  BY DEF Init, ListenerArmed
<1>2. TInv /\ TInv' /\ ListenerArmed /\ [Next]_vars => ListenerArmed'
  <2> SUFFICES ASSUME TInv, TInv', ListenerArmed, [Next]_vars PROVE ListenerArmed'
    OBVIOUS
  <2>0. /\ cur \in Session \cup {0} /\ (cur # 0 => sess[cur].state # "none")
        /\ sess' \in [Session -> SessType] /\ SessOK
    BY DEF TInv, ListsOK, SessOK, Exists
  <2>1. \A s \in Session : sess[s].waiters \in Nat /\ sess[s].waiters >= sess[s].waiters
    BY <2>0 DEF SessOK, SessType
  <2>2. ASSUME Run PROVE ListenerArmed'
    <3>1. UNCHANGED cur /\ inbox \subseteq inbox'
      BY <2>2, RunSteps DEF chat
    <3>2. ASSUME NEW c \in flight, Idle(c) \/ Acts(c) PROVE ListenerArmed'
      <4>1. cur # 0 => sess'[cur].kind = sess[cur].kind /\ sess'[cur].waiters >= sess[cur].waiters
        BY <2>0, <2>1, <3>2 DEF Idle, Acts, Alike
      <4> QED BY <2>0, <3>1, <4>1, ArmedStays
    <3>3. ASSUME NEW c, NEW s \in Session, NEW kind \in Transports, NEW subscribed \in BOOLEAN,
                 NEW d, sess[s].state = "none", Table(d), Opens(c, s, kind, d, subscribed)
          PROVE  ListenerArmed'
      <4>1. \A x \in Session : x # s =>
              sess'[x].kind = sess[x].kind /\ sess'[x].waiters = sess[x].waiters
        BY <3>3, OpensSessions
      <4>2. cur # 0 => sess'[cur].kind = sess[cur].kind /\ sess'[cur].waiters >= sess[cur].waiters
        BY <2>0, <2>1, <3>3, <4>1
      <4> QED BY <2>0, <3>1, <4>2, ArmedStays
    <3>4. CASE Push
      <4>1. \A x \in Session : sess'[x].kind = sess[x].kind /\ sess'[x].waiters = sess[x].waiters
        BY <3>4, PushOK
      <4>2. cur # 0 => sess'[cur].kind = sess[cur].kind /\ sess'[cur].waiters >= sess[cur].waiters
        BY <2>0, <2>1, <4>1
      <4> QED BY <2>0, <3>1, <4>2, ArmedStays
    <3>5. CASE WaitGandrIncoming
      BY <3>5, WaitOK DEF ListenerArmed
    <3> QED BY <2>2, <3>2, <3>3, <3>4, <3>5, RunSteps
  <2>3. ASSUME Update PROVE ListenerArmed'
    <3>1. CASE ApplyIncoming \/ ApplyUnreadable \/ ApplyGroupIncoming
      <4>1. sess' = Rearmed(sess) /\ cur' = cur
        BY <3>1, ApplyIncomings
      <4>2. Waited(sess') /\ (cur # 0 /\ sess[cur].kind # "offline" => sess'[cur].waiters > 0)
        BY <2>0, <4>1, RearmedOK
      <4> QED BY <2>0, <4>1, <4>2 DEF Waited, ListenerArmed
    <3>2. CASE ApplySession
      <4>1. /\ Waited(sess') /\ \A m \in inbox : m.kind = "incoming" => m \in inbox'
            /\ cur' = cur \/ (cur' # 0 /\ (sess'[cur'].kind # "offline" => sess'[cur'].waiters > 0))
        BY <3>2, ApplySessionOK
      <4>2. CASE cur' = cur
        BY <2>0, <4>1, <4>2, ArmedStays DEF Waited
      <4>3. CASE sess'[cur'].kind # "offline" => sess'[cur'].waiters > 0
        BY <4>3 DEF ListenerArmed
      <4> QED BY <4>1, <4>2, <4>3
    <3>3. CASE ApplyVault \/ PauseEnds \/ ApplyGroup \/ ApplyChannels \/ ApplyContact \/ ApplyDelete
      <4>1. UNCHANGED <<cur, sess>> /\ \A m \in inbox : m.kind = "incoming" => m \in inbox'
        BY <3>3, OtherMessages
      <4> QED BY <4>1 DEF ListenerArmed
    <3> QED BY <2>3, <3>1, <3>2, <3>3 DEF Update
  <2>4. ASSUME KeyPress PROVE ListenerArmed'
    <3>1. Closes /\ UNCHANGED inbox
      BY <2>4, KeysOK
    <3> QED BY <3>1 DEF Closes, ListenerArmed
  <2>5. CASE UNCHANGED vars
    BY <2>5 DEF vars, chat, ListenerArmed
  <2> QED BY <2>2, <2>3, <2>4, <2>5 DEF Next
<1> QED BY <1>1, <1>2, TypesHold, PTL DEF Spec

-----------------------------------------------------------------------------
(* An embedded session hears the channels its database lists.              *)

\* A session that has not met another is the only one that is open.
AloneIsOnly ==
    \A s \in Session : IsOpen(s) /\ sess[s].alone => \A y \in Session : y # s => ~IsOpen(y)

JInv == AloneIsOnly /\ JoinedSubscribed

\* A step that opens no session, lists no channel, takes no subscription away
\* and ends no join or leave that is half way in an open embedded session.
Calm ==
    /\ \A x \in Session :
         /\ sess'[x].kind = sess[x].kind /\ sess'[x].gen = sess[x].gen
         /\ sess'[x].subs = sess[x].subs /\ sess'[x].alone = sess[x].alone
         /\ sess'[x].state = sess[x].state \/ sess'[x].state = "closed"
    /\ \A x \in Gen : db'[x].channels = db[x].channels
    /\ \A c \in flight : \/ c \in flight' \/ c.op \notin HalfWay
                         \/ ~IsOpen(c.s) \/ sess[c.s].kind = "ipc"

LEMMA CalmKeeps ==
    ASSUME TInv, JInv, Calm PROVE JInv'
<1>1. \A x \in Session : IsOpen(x)' => IsOpen(x)
  BY DEF Calm, IsOpen
<1>2. AloneIsOnly'
  BY <1>1 DEF JInv, AloneIsOnly, Calm
<1>3. ASSUME NEW s \in Session, IsOpen(s)', sess'[s].kind = "embedded", sess'[s].alone,
             NEW c \in Elems(Data(s)'.channels) \ sess'[s].subs
      PROVE  \E x \in flight' : x.op \in HalfWay /\ x.s = s /\ x.channel = c
  <2>1. IsOpen(s) /\ sess[s].kind = "embedded" /\ sess[s].alone /\ sess[s].gen \in Gen
    BY <1>1, <1>3 DEF Calm, TInv, SessOK, SessType
  <2>2. Data(s)'.channels = Data(s).channels
    BY <2>1 DEF Calm, Data
  <2>3. c \in Elems(Data(s).channels) \ sess[s].subs
    BY <1>3, <2>2 DEF Calm
  <2>4. PICK x \in flight : x.op \in HalfWay /\ x.s = s /\ x.channel = c
    BY <2>1, <2>3 DEF JInv, JoinedSubscribed, HalfWay
  <2>5. x \in flight'
    BY <2>1, <2>4 DEF Calm
  <2> QED BY <2>4, <2>5
<1>4. JoinedSubscribed'
  BY <1>3 DEF JoinedSubscribed, HalfWay
<1> QED BY <1>2, <1>4 DEF JInv

LEMMA ActsKeeps ==
    ASSUME TInv, JInv, NEW c \in flight, Acts(c) PROVE JInv'
<1>1. \A x \in Session :
        /\ sess'[x].kind = sess[x].kind /\ sess'[x].gen = sess[x].gen
        /\ sess'[x].alone = sess[x].alone /\ sess'[x].state = sess[x].state
  BY DEF Acts, Alike
<1>2. \A x \in Session : IsOpen(x)' <=> IsOpen(x)
  BY <1>1 DEF IsOpen
<1>3. AloneIsOnly'
  BY <1>1, <1>2 DEF JInv, AloneIsOnly
<1>4. ASSUME NEW s \in Session, IsOpen(s)', sess'[s].kind = "embedded", sess'[s].alone,
             NEW ch \in Elems(Data(s)'.channels) \ sess'[s].subs
      PROVE  \E x \in flight' : x.op \in HalfWay /\ x.s = s /\ x.channel = ch
  <2>1. IsOpen(s) /\ sess[s].kind = "embedded" /\ sess[s].alone /\ sess[s].gen \in Gen
    BY <1>1, <1>2, <1>4 DEF TInv, SessOK, SessType
  <2>2. c.s = s
    BY <2>1 DEF JInv, AloneIsOnly, Acts
  <2>3. PICK d : /\ Table(d) /\ db' = Stored(s, d)
                 /\ \A e \in Elems(d.channels) \ sess'[s].subs :
                      \/ /\ e \in Elems(Data(s).channels) \ sess[s].subs
                         /\ ~(c.op \in HalfWay /\ c.channel = e)
                      \/ \E x \in flight' : x.op \in HalfWay /\ x.s = s /\ x.channel = e
    BY <2>1, <2>2 DEF Acts
  <2>4. db'[sess[s].gen] = d
    BY <2>1, <2>3, StoredOK DEF TInv
  <2>5. Data(s)' = d
    BY <1>1, <2>4 DEF Data
  <2>6. CASE ch \in Elems(Data(s).channels) \ sess[s].subs /\ ~(c.op \in HalfWay /\ c.channel = ch)
    <3>1. PICK x \in flight : x.op \in HalfWay /\ x.s = s /\ x.channel = ch
      BY <2>1, <2>6 DEF JInv, JoinedSubscribed, HalfWay
    <3>2. x \in flight'
      BY <2>6, <3>1 DEF Acts
    <3> QED BY <3>1, <3>2
  <2> QED BY <1>4, <2>3, <2>5, <2>6
<1>5. JoinedSubscribed'
  BY <1>4 DEF JoinedSubscribed, HalfWay
<1> QED BY <1>3, <1>5 DEF JInv

LEMMA OpensKeeps ==
    ASSUME TInv, JInv, NEW c, NEW s \in Session, NEW kind \in Transports, NEW d,
           NEW subscribed \in BOOLEAN, sess[s].state = "none", Table(d), Opens(c, s, kind, d, subscribed)
    PROVE  JInv'
<1>1. /\ \A x \in Session : x # s => /\ sess'[x].state = sess[x].state
                                     /\ sess'[x].alone = (sess[x].alone /\ ~IsOpen(x))
      /\ sess'[s].gen = gen /\ sess'[s].alone = \A y \in Session : ~IsOpen(y)
      /\ kind # "offline" => sess'[s].subs = Elems(d.channels)
  BY OpensSessions
<1>2. \A x \in Session : x # s => (IsOpen(x)' <=> IsOpen(x)) /\ ~(IsOpen(x)' /\ sess'[x].alone)
  BY <1>1 DEF IsOpen
<1>3. AloneIsOnly'
  BY <1>1, <1>2 DEF AloneIsOnly
<1>4. ASSUME NEW x \in Session, IsOpen(x)', sess'[x].kind = "embedded", sess'[x].alone
      PROVE  Elems(Data(x)'.channels) \subseteq sess'[x].subs
  <2>1. x = s
    BY <1>2, <1>4
  <2>2. sess'[s].kind = kind
    <3>1. sess'[s] = Connect(kind, d.channels, subscribed)
      BY DEF Opens
    <3> QED BY <3>1 DEF Connect, NewSession, NoSession
  <2>3. kind # "offline"
    BY <1>4, <2>1, <2>2
  <2>4. gen \in Gen /\ db \in [Gen -> DbType]
    BY DEF TInv, VaultOK, DbOK
  <2>5. Data(s)' = d
    BY <1>1, <2>4 DEF Opens, Data
  <2> QED BY <1>1, <2>1, <2>3, <2>5
<1>5. JoinedSubscribed'
  BY <1>4 DEF JoinedSubscribed
<1> QED BY <1>3, <1>5 DEF JInv

\* Joining writes the database before it subscribes, and leaving ends the
\* subscription before it writes: only half way may a channel be listed that
\* the embedded daemon does not push.
THEOREM JoinedAreSubscribed == Spec => []JoinedSubscribed
<1>1. Init => JInv
  <2> SUFFICES ASSUME Init PROVE JInv
    OBVIOUS
  <2>1. \A s \in Session : ~IsOpen(s)
    BY DEF Init, IsOpen, NoSession
  <2> QED BY <2>1 DEF JInv, AloneIsOnly, JoinedSubscribed
<1>2. TInv /\ TInv' /\ JInv /\ [Next]_vars => JInv'
  <2> SUFFICES ASSUME TInv, TInv', JInv, [Next]_vars PROVE JInv'
    OBVIOUS
  <2>1. CASE Run
    <3>1. ASSUME NEW c \in flight, Idle(c) PROVE Calm
      BY <3>1 DEF Idle, Calm
    <3>2. ASSUME Push PROVE Calm
      <4>1. db' = db /\ flight' = flight
        BY <3>2 DEF Push
      <4>2. \A x \in Session :
              /\ sess'[x].state = sess[x].state /\ sess'[x].kind = sess[x].kind
              /\ sess'[x].gen = sess[x].gen
              /\ sess'[x].subs = sess[x].subs /\ sess'[x].alone = sess[x].alone
        BY <3>2, PushOK
      <4> QED BY <4>1, <4>2 DEF Calm
    <3>3. ASSUME WaitGandrIncoming PROVE Calm
      <4>1. db' = db /\ flight' = flight
        BY <3>3 DEF WaitGandrIncoming
      <4>2. \A x \in Session :
              /\ sess'[x].state = sess[x].state /\ sess'[x].kind = sess[x].kind
              /\ sess'[x].gen = sess[x].gen
              /\ sess'[x].subs = sess[x].subs /\ sess'[x].alone = sess[x].alone
        BY <3>3, WaitOK
      <4> QED BY <4>1, <4>2 DEF Calm
    <3> QED BY <2>1, <3>1, <3>2, <3>3, RunSteps, CalmKeeps, ActsKeeps, OpensKeeps
  <2>2. CASE Update
    <3>1. CASE ApplyIncoming \/ ApplyUnreadable \/ ApplyGroupIncoming
      <4>1. /\ sess' = Rearmed(sess) /\ flight' = flight
            /\ \A x \in Gen : db'[x].channels = db[x].channels
        BY <3>1, ApplyIncomings
      <4>2. Waited(sess')
        BY <4>1, RearmedOK DEF TInv, ListsOK
      <4> QED BY <4>1, <4>2, CalmKeeps DEF Calm, Waited
    <3>2. CASE ApplySession
      <4>1. UNCHANGED <<db, flight>> /\ Waited(sess')
        BY <3>2, ApplySessionOK
      <4> QED BY <4>1, CalmKeeps DEF Calm, Waited
    <3>3. CASE ApplyVault \/ PauseEnds \/ ApplyGroup \/ ApplyChannels \/ ApplyContact \/ ApplyDelete
      <4>1. UNCHANGED <<sess, db>> /\ flight \subseteq flight'
        BY <3>3, OtherMessages
      <4> QED BY <4>1, CalmKeeps DEF Calm
    <3> QED BY <2>2, <3>1, <3>2, <3>3 DEF Update
  <2>3. CASE KeyPress
    <3>1. Closes /\ UNCHANGED db /\ flight \subseteq flight'
      BY <2>3, KeysOK
    <3> QED BY <3>1, CalmKeeps DEF Calm, Closes
  <2>4. CASE UNCHANGED vars
    BY <2>4, CalmKeeps DEF vars, Calm
  <2> QED BY <2>1, <2>2, <2>3, <2>4 DEF Next
<1>3. JInv => JoinedSubscribed
  BY DEF JInv
<1> QED BY <1>1, <1>2, <1>3, TypesHold, PTL DEF Spec
=============================================================================
